---------------------------- MODULE Spec2Model ----------------------------
(***************************************************************************)
(* Step tracer of edcraft-engine: the execution context that records the   *)
(* trace of an instrumented program (models/tracer_models.py), the AST     *)
(* transformer that instruments a program (step_tracer/                    *)
(* tracer_transformer.py) and the execution of instrumented programs.      *)
(***************************************************************************)
EXTENDS Integers, Sequences, FiniteSets, TLC

VARIABLES
    exec_ctx,   \* the ExecutionContext object (a record of its fields)
    pending,    \* frames made by a create_* factory and not yet entered (at most one)
    error,      \* the error raised by the last operation ("" when it returned)
    history,    \* what the context looked like when each record was made
    interp,     \* the Python interpreter running an instrumented program
    ghost,      \* what the running program did, kept apart from the trace
    query       \* the query being compiled and executed on the trace

vars == <<exec_ctx, pending, error, history, interp, ghost, query>>

----------------------------------------------------------------------------
(* Bounds of the model *)

\* executions recorded in one run of the context-level specification
MaxExec == 3
\* variable snapshots recorded in one run of the context-level specification
MaxVars == 1
\* passes of a loop of a traced program
MaxIter == 5

----------------------------------------------------------------------------
(* Values of the traced program *)

\* end_execution_id of a frame that is still open
NoEnd == -1
\* an absent integer field (None)
NoInt == -1

IntVal(n) == [t |-> "int", n |-> n, items |-> <<>>]
NoneVal == [t |-> "none", n |-> 0, items |-> <<>>]

Last(s) == s[Len(s)]
Front(s) == SubSeq(s, 1, Len(s) - 1)

----------------------------------------------------------------------------
(* Trace records: models/tracer_models.py *)

StatementExecution(execution_id, scope_id, line_number, stmt_type) ==
    [execution_id |-> execution_id,
     scope_id |-> scope_id,
     line_number |-> line_number,
     stmt_type |-> stmt_type,
     end_execution_id |-> NoEnd,
     loop_type |-> "",
     num_iterations |-> 0,
     iteration_num |-> NoInt,
     loop_execution_id |-> NoInt,
     func_name |-> "",
     func_full_name |-> "",
     func_def_line_num |-> NoInt,
     arguments |-> <<>>,
     return_value |-> NoneVal,
     func_call_exec_ctx_id |-> NoInt,
     condition_str |-> "",
     condition_result |-> FALSE]

LoopExecution(execution_id, scope_id, line_number, loop_type) ==
    [StatementExecution(execution_id, scope_id, line_number, "loop")
        EXCEPT !.loop_type = loop_type, !.num_iterations = 0]

LoopIteration(execution_id, scope_id, line_number, iteration_num, loop_execution_id) ==
    [StatementExecution(execution_id, scope_id, line_number, "loop_iteration")
        EXCEPT !.iteration_num = iteration_num,
               !.loop_execution_id = loop_execution_id]

FunctionCall(execution_id, scope_id, line_number, func_name, func_full_name, func_call_exec_ctx_id) ==
    [StatementExecution(execution_id, scope_id, line_number, "function")
        EXCEPT !.func_name = func_name,
               !.func_full_name = func_full_name,
               !.func_call_exec_ctx_id = func_call_exec_ctx_id]

BranchExecution(execution_id, scope_id, line_number, condition_str, condition_result) ==
    [StatementExecution(execution_id, scope_id, line_number, "branch")
        EXCEPT !.condition_str = condition_str,
               !.condition_result = condition_result]

VariableSnapshot(name, value, access_path, line_number, scope_id, execution_id) ==
    [name |-> name,
     value |-> value,
     access_path |-> access_path,
     line_number |-> line_number,
     scope_id |-> scope_id,
     execution_id |-> execution_id,
     stmt_type |-> "variable"]

\* a scope; scopes are kept in exec_ctx.scopes at index scope_id + 1
Scope(scope_type, scope_id, parent) ==
    [scope_type |-> scope_type, scope_id |-> scope_id, parent |-> parent,
     children |-> <<>>]

\* FunctionCall.reset_args
reset_args(e) == [e EXCEPT !.arguments = <<>>]

\* FunctionCall.add_arg: a dict assignment keeps the place of a key it already has
add_arg(e, name, value) ==
    IF \E i \in 1..Len(e.arguments) : e.arguments[i].name = name
    THEN [e EXCEPT !.arguments =
            [i \in 1..Len(@) |->
                IF @[i].name = name THEN [name |-> name, value |-> value] ELSE @[i]]]
    ELSE [e EXCEPT !.arguments = Append(@, [name |-> name, value |-> value])]

\* FunctionCall.set_func_def_line_num
set_func_def_line_num(e, line_num) == [e EXCEPT !.func_def_line_num = line_num]

\* FunctionCall.set_return_value
set_return_value(e, return_value) == [e EXCEPT !.return_value = return_value]

----------------------------------------------------------------------------
(* ExecutionContext: models/tracer_models.py.  The operations are operators *)
(* from a context to the context they leave.  execution_stack holds the     *)
(* places in execution_trace of the records it refers to (the trace and the *)
(* stack share the record objects).                                         *)

\* ExecutionContext.__init__
NewExecutionContext ==
    [execution_trace |-> <<>>,
     variables |-> <<>>,
     execution_stack |-> <<>>,
     scope_stack |-> <<0>>,
     execution_counter |-> 0,
     scope_counter |-> 0,
     scopes |-> <<Scope("global", 0, NoInt)>>]

\* the place in the trace of current_execution, 0 for None
current_execution(c) ==
    IF c.execution_stack # <<>> THEN Last(c.execution_stack) ELSE 0

\* the scope_id of current_scope
current_scope(c) == Last(c.scope_stack)

\* the counter is read and not advanced
generate_execution_id_stale(c) == c

generate_execution_id(c) == [c EXCEPT !.execution_counter = @ + 1]

generate_scope_id(c) == [c EXCEPT !.scope_counter = @ + 1]

\* Scope(...) for a scope with a parent, and push_scope of it
push_scope(c, scope) ==
    [c EXCEPT !.scopes =
                Append([@ EXCEPT ![scope.parent + 1].children =
                                        Append(@, scope.scope_id)], scope),
              !.scope_stack = Append(@, scope.scope_id)]

pop_scope(c) == [c EXCEPT !.scope_stack = Front(@)]

push_execution(c, execution) ==
    [c EXCEPT !.execution_trace = Append(@, execution),
              !.execution_stack = Append(@, Len(c.execution_trace) + 1)]

\* the closing stamp of the frame at place idx of the trace
stamp_end_execution_id(c, idx) ==
    [c EXCEPT !.execution_trace[idx].end_execution_id = c.execution_counter]

\* the scope of a call is left on the scope stack
pop_execution_keeps_scope(c) ==
    LET idx == Last(c.execution_stack)
        c1 == stamp_end_execution_id(c, idx)
    IN  [c1 EXCEPT !.execution_stack = Front(@)]

pop_execution(c) ==
    LET idx == Last(c.execution_stack)
        c1 == stamp_end_execution_id(c, idx)
        c2 == [c1 EXCEPT !.execution_stack = Front(@)]
    IN  IF c.execution_trace[idx].stmt_type = "function" THEN pop_scope(c2) ELSE c2

record_loop_execution(c, line_number, loop_type) ==
    LET c1 == generate_execution_id(c)
        execution_id == c1.execution_counter
        scope_id == current_scope(c1)
    IN  push_execution(c1, LoopExecution(execution_id, scope_id, line_number, loop_type))

\* the iteration number and the execution id change places
start_iteration_swapped(c, idx, execution_id, scope_id) ==
    LET loop == c.execution_trace[idx]
    IN  LoopIteration(loop.num_iterations, scope_id, loop.line_number, execution_id,
                      loop.execution_id)

\* LoopExecution.start_iteration on the loop at place idx: the new iteration
start_iteration(c, idx, execution_id, scope_id) ==
    LET loop == c.execution_trace[idx]
    IN  LoopIteration(execution_id, scope_id, loop.line_number, loop.num_iterations,
                      loop.execution_id)

\* the loop does not count the iteration
count_iteration_skipped(c, idx) == c

\* LoopExecution.start_iteration: its effect on the loop
count_iteration(c, idx) ==
    [c EXCEPT !.execution_trace[idx].num_iterations = @ + 1]

\* any frame on top of the stack passes for a loop
loop_is_active_any_frame(c) == current_execution(c) # 0

\* whether record_loop_iteration finds a LoopExecution on top of the stack
loop_is_active(c) ==
    /\ current_execution(c) # 0
    /\ c.execution_trace[current_execution(c)].stmt_type = "loop"

\* record_loop_iteration when loop_is_active; it raises otherwise
record_loop_iteration(c) ==
    LET idx == current_execution(c)
        c1 == generate_execution_id(c)
        execution_id == c1.execution_counter
        scope_id == current_scope(c1)
        iteration == start_iteration(c1, idx, execution_id, scope_id)
    IN  push_execution(count_iteration(c1, idx), iteration)

record_function_call(c, line_number, func_name, func_full_name) ==
    LET c1 == generate_execution_id(c)
        execution_id == c1.execution_counter
        scope_id == current_scope(c1)
        func_call_exec_ctx_id ==
            IF current_execution(c1) # 0
            THEN c1.execution_trace[current_execution(c1)].execution_id ELSE 0
        c2 == push_execution(c1, FunctionCall(execution_id, scope_id, line_number,
                                              func_name, func_full_name,
                                              func_call_exec_ctx_id))
        c3 == generate_scope_id(c2)
    IN  push_scope(c3, Scope("function", c3.scope_counter, current_scope(c3)))

record_branch_execution(c, line_number, condition_str, condition_result) ==
    LET c1 == generate_execution_id(c)
        execution_id == c1.execution_counter
        scope_id == current_scope(c1)
    IN  push_execution(c1, BranchExecution(execution_id, scope_id, line_number,
                                           condition_str, condition_result))

record_variable(c, name, value, access_path, line_number) ==
    LET execution_id ==
            IF current_execution(c) # 0
            THEN c.execution_trace[current_execution(c)].execution_id ELSE 0
        scope_id == current_scope(c)
    IN  [c EXCEPT !.variables =
            Append(@, VariableSnapshot(name, value, access_path, line_number,
                                       scope_id, execution_id))]

----------------------------------------------------------------------------
(* The factories and the scoped tracker of the with-based tracer:           *)
(* create_* allocates the execution id of a frame and does not push it,     *)
(* track_stmt_exec pushes the frame on entering its block and pops it on    *)
(* leaving it.                                                              *)

create_loop_execution(c, line_number, loop_type) ==
    LET c1 == generate_execution_id(c)
    IN  [ctx |-> c1,
         e |-> LoopExecution(c1.execution_counter, current_scope(c1), line_number,
                             loop_type)]

\* create_loop_iteration when loop_is_active; it raises otherwise
create_loop_iteration(c) ==
    LET idx == current_execution(c)
        c1 == generate_execution_id(c)
    IN  [ctx |-> count_iteration(c1, idx),
         e |-> start_iteration(c1, idx, c1.execution_counter, current_scope(c1))]

create_function_call(c, line_number, func_name, func_full_name) ==
    LET c1 == generate_execution_id(c)
        func_call_exec_ctx_id ==
            IF current_execution(c1) # 0
            THEN c1.execution_trace[current_execution(c1)].execution_id ELSE 0
    IN  [ctx |-> c1,
         e |-> FunctionCall(c1.execution_counter, current_scope(c1), line_number,
                            func_name, func_full_name, func_call_exec_ctx_id)]

create_branch_execution(c, line_number, condition_str, condition_result) ==
    LET c1 == generate_execution_id(c)
    IN  [ctx |-> c1,
         e |-> BranchExecution(c1.execution_counter, current_scope(c1), line_number,
                               condition_str, condition_result)]

\* entering the block of track_stmt_exec(e): push_execution, with the scope of a call
track_stmt_exec_enter(c, e) ==
    LET c1 == push_execution(c, e)
        c2 == generate_scope_id(c1)
    IN  IF e.stmt_type = "function"
        THEN push_scope(c2, Scope("function", c2.scope_counter, current_scope(c2)))
        ELSE c1

\* the frame is left on the stack
track_stmt_exec_exit_leaks(c) == c

\* leaving the block of track_stmt_exec(e), by any path
track_stmt_exec_exit(c) == pop_execution(c)

----------------------------------------------------------------------------
(* Inputs of the context-level specification *)

Lines == {1}
LoopTypes == {"for", "while"}
FuncNames == {"f"}
CondStrs == {"x > 0"}
VarNames == {"x"}
Values == {IntVal(0)}

NoActiveLoop == "No active loop execution to record iteration for."
EmptyStack == "pop from empty list"

----------------------------------------------------------------------------
(* The context-level specification: the operations of one ExecutionContext, *)
(* called in any order in which instrumented code can call them.            *)

\* history.opened_in[i]: the execution stack when record i of the trace was pushed;
\* history.recorded_in[i]: the scope stack and the scope counter when snapshot i
\* was recorded
NoHistory == [opened_in |-> <<>>, recorded_in |-> <<>>]

\* no program runs in the context-level specification
NoSignal == [kind |-> "none", value |-> NoneVal]
NoProgram ==
    [status |-> "idle", prog |-> "", param |-> 0, frames |-> <<>>, heap |-> <<>>, funcs |-> <<>>,
     signal |-> NoSignal, exc |-> ""]
NoGhost == [owed |-> <<>>, loops |-> <<>>, left |-> <<>>, seen |-> <<>>,
            prologues |-> <<>>, calls |-> <<>>]
\* no query has been made
\* asked: the calls of generate_query made on the generator; earlier: the
\* results of the queries it compiled before the last, or of the earlier
\* executions of a query; items, other_items: the rows a query that is built
\* step by step is applied to and the rows its joins are given
NoQuery ==
    [phase |-> "idle", target |-> <<>>, output_type |-> "", join_idx |-> 0,
     pipeline |-> <<>>, result |-> <<>>, error |-> "", asked |-> 0, earlier |-> <<>>,
     items |-> <<>>, other_items |-> <<>>]

Observe ==
    history' =
        [opened_in |->
            IF Len(exec_ctx'.execution_trace) > Len(exec_ctx.execution_trace)
            THEN Append(history.opened_in, exec_ctx.execution_stack)
            ELSE history.opened_in,
         recorded_in |->
            IF Len(exec_ctx'.variables) > Len(exec_ctx.variables)
            THEN Append(history.recorded_in,
                        [scope_stack |-> exec_ctx.scope_stack,
                         scope_counter |-> exec_ctx.scope_counter])
            ELSE history.recorded_in]

Init ==
    /\ exec_ctx = NewExecutionContext
    /\ pending = <<>>
    /\ error = ""
    /\ history = NoHistory
    /\ interp = NoProgram
    /\ ghost = NoGhost
    /\ query = NoQuery

CanRecord ==
    /\ pending = <<>>
    /\ exec_ctx.execution_counter < MaxExec

RecordLoopExecution ==
    /\ CanRecord
    /\ \E line \in Lines, loop_type \in LoopTypes :
            exec_ctx' = record_loop_execution(exec_ctx, line, loop_type)
    /\ error' = ""
    /\ UNCHANGED pending
    /\ Observe
    /\ UNCHANGED <<interp, ghost, query>>

RecordLoopIteration ==
    /\ CanRecord
    /\ loop_is_active(exec_ctx)
    /\ exec_ctx' = record_loop_iteration(exec_ctx)
    /\ error' = ""
    /\ UNCHANGED pending
    /\ Observe
    /\ UNCHANGED <<interp, ghost, query>>

RecordLoopIterationRaises ==
    /\ pending = <<>>
    /\ ~loop_is_active(exec_ctx)
    /\ error' = NoActiveLoop
    /\ UNCHANGED <<exec_ctx, pending>>
    /\ Observe
    /\ UNCHANGED <<interp, ghost, query>>

RecordFunctionCall ==
    /\ CanRecord
    /\ \E line \in Lines, func_name \in FuncNames :
            exec_ctx' = record_function_call(exec_ctx, line, func_name, func_name)
    /\ error' = ""
    /\ UNCHANGED pending
    /\ Observe
    /\ UNCHANGED <<interp, ghost, query>>

RecordBranchExecution ==
    /\ CanRecord
    /\ \E line \in Lines, condition_str \in CondStrs, condition_result \in BOOLEAN :
            exec_ctx' = record_branch_execution(exec_ctx, line, condition_str,
                                                condition_result)
    /\ error' = ""
    /\ UNCHANGED pending
    /\ Observe
    /\ UNCHANGED <<interp, ghost, query>>

RecordVariable ==
    /\ pending = <<>>
    /\ Len(exec_ctx.variables) < MaxVars
    /\ \E name \in VarNames, value \in Values, line \in Lines :
            exec_ctx' = record_variable(exec_ctx, name, value, name, line)
    /\ error' = ""
    /\ UNCHANGED pending
    /\ Observe
    /\ UNCHANGED <<interp, ghost, query>>

PopExecution ==
    /\ pending = <<>>
    /\ exec_ctx.execution_stack # <<>>
    /\ exec_ctx' = pop_execution(exec_ctx)
    /\ error' = ""
    /\ UNCHANGED pending
    /\ Observe
    /\ UNCHANGED <<interp, ghost, query>>

PopExecutionRaises ==
    /\ pending = <<>>
    /\ exec_ctx.execution_stack = <<>>
    /\ error' = EmptyStack
    /\ UNCHANGED <<exec_ctx, pending>>
    /\ Observe
    /\ UNCHANGED <<interp, ghost, query>>

\* the argument of track_stmt_exec(...) is evaluated: one of the factories runs
CreateStmtExec ==
    /\ CanRecord
    /\ \E r \in
            {create_loop_execution(exec_ctx, line, loop_type) :
                line \in Lines, loop_type \in LoopTypes}
            \cup {create_function_call(exec_ctx, line, f, f) :
                line \in Lines, f \in FuncNames}
            \cup {create_branch_execution(exec_ctx, line, s, b) :
                line \in Lines, s \in CondStrs, b \in BOOLEAN}
            \cup (IF loop_is_active(exec_ctx)
                  THEN {create_loop_iteration(exec_ctx)} ELSE {}) :
            /\ exec_ctx' = r.ctx
            /\ pending' = <<r.e>>
    /\ error' = ""
    /\ Observe
    /\ UNCHANGED <<interp, ghost, query>>

\* the with statement enters the block of the tracker it was given
TrackStmtExecEnter ==
    /\ pending # <<>>
    /\ exec_ctx' = track_stmt_exec_enter(exec_ctx, pending[1])
    /\ pending' = <<>>
    /\ error' = ""
    /\ Observe
    /\ UNCHANGED <<interp, ghost, query>>

Next ==
    \/ RecordLoopExecution
    \/ RecordLoopIteration
    \/ RecordLoopIterationRaises
    \/ RecordFunctionCall
    \/ RecordBranchExecution
    \/ RecordVariable
    \/ PopExecution
    \/ PopExecutionRaises
    \/ CreateStmtExec
    \/ TrackStmtExecEnter

Spec == Init /\ [][Next]_vars

----------------------------------------------------------------------------
(* The syntax trees of the traced programs: the nodes of Python's ast that  *)
(* the transformer reads and builds.  A node is a record with its kind in k. *)

\* an absent node (None)
NoNode == [k |-> "None"]

Name(id) == [k |-> "Name", id |-> id]
Constant(value) == [k |-> "Constant", value |-> value]
BinOp(left, op, right) == [k |-> "BinOp", left |-> left, op |-> op, right |-> right]
Compare(left, op, right) == [k |-> "Compare", left |-> left, op |-> op, right |-> right]
Attribute(value, attr) == [k |-> "Attribute", value |-> value, attr |-> attr]
Subscript(value, slice) == [k |-> "Subscript", value |-> value, slice |-> slice]
List(elts) == [k |-> "List", elts |-> elts]
Tuple(elts) == [k |-> "Tuple", elts |-> elts]
Starred(value) == [k |-> "Starred", value |-> value]
keyword(arg, value) == [arg |-> arg, value |-> value]
Call(func, args, keywords, lineno) == [k |-> "Call", func |-> func, args |-> args, keywords |-> keywords, lineno |-> lineno]

Assign(targets, value, lineno) == [k |-> "Assign", targets |-> targets, value |-> value, lineno |-> lineno]
AugAssign(target, op, value, lineno) == [k |-> "AugAssign", target |-> target, op |-> op, value |-> value, lineno |-> lineno]
AnnAssign(target, value, lineno) == [k |-> "AnnAssign", target |-> target, value |-> value, lineno |-> lineno]
Expr(value, lineno) == [k |-> "Expr", value |-> value, lineno |-> lineno]
For(target, iter, body, lineno) == [k |-> "For", target |-> target, iter |-> iter, body |-> body, lineno |-> lineno]
While(test, body, lineno) == [k |-> "While", test |-> test, body |-> body, lineno |-> lineno]
If(test, body, orelse, lineno) == [k |-> "If", test |-> test, body |-> body, orelse |-> orelse, lineno |-> lineno]
FunctionDef(name, args, body, lineno) == [k |-> "FunctionDef", name |-> name, args |-> args, body |-> body, lineno |-> lineno]
Return(value) == [k |-> "Return", value |-> value]
Raise(exc) == [k |-> "Raise", exc |-> exc]
Break == [k |-> "Break"]
Continue == [k |-> "Continue"]
With(context_expr, body) == [k |-> "With", context_expr |-> context_expr, body |-> body]

RECURSIVE unparse(_)
\* ast.unparse of the expressions the programs below are made of
unparse(e) ==
    CASE e.k = "Name" -> e.id
      [] e.k = "Constant" -> ToString(e.value.n)
      [] e.k = "BinOp" -> unparse(e.left) \o " " \o e.op \o " " \o unparse(e.right)
      [] e.k = "Compare" -> unparse(e.left) \o " " \o e.op \o " " \o unparse(e.right)
      [] e.k = "Attribute" -> unparse(e.value) \o "." \o e.attr
      [] e.k = "Subscript" -> unparse(e.value) \o "[" \o unparse(e.slice) \o "]"
      [] e.k = "Call" -> unparse(e.func) \o "(...)"
      [] OTHER -> "<expr>"

----------------------------------------------------------------------------
(* TracerTransformer: step_tracer/tracer_transformer.py (the with-based     *)
(* transformer).  A call on the execution context in the instrumented code  *)
(* is a node whose kind is the method called.                               *)

tmp_ret_var == "_step_tracer_tmp_ret"
temp_cond_var == "_step_tracer_temp"

_create_loop_exec_call(lineno, loop_type) ==
    [k |-> "create_loop_execution", lineno |-> lineno, loop_type |-> loop_type]

_create_loop_iter_call == [k |-> "create_loop_iteration"]

_create_func_call(node, func_name, func_full_name) ==
    [k |-> "create_function_call", lineno |-> node.lineno, func_name |-> func_name,
     func_full_name |-> func_full_name]

_create_branch_execution(line_number, cond, temp_cond) ==
    [k |-> "create_branch_execution", lineno |-> line_number,
     condition_str |-> unparse(cond), condition_result |-> temp_cond]

\* current_execution.add_arg(name, safe_deepcopy(arg_value))
_create_add_arg_call(name, arg_value) ==
    [k |-> "add_arg", name |-> name, value |-> arg_value]

\* current_execution.set_return_value(safe_deepcopy(return_value))
_create_record_func_return_call(return_value) ==
    [k |-> "set_return_value", value |-> return_value]

_create_set_func_def_line_num_call(line_num) ==
    [k |-> "set_func_def_line_num", line_num |-> line_num]

_create_reset_args_call == [k |-> "reset_args"]

\* record_variable(var_name, safe_deepcopy(var_name), access_path, line_no)
_create_variable_tracking_call(var_name, access_path, line_no) ==
    [k |-> "record_variable", var_name |-> var_name, access_path |-> access_path,
     line_no |-> line_no]

\* with track_stmt_exec(create_stmt_exec_node): body
_wrap_with_ctx(body, create_stmt_exec_node) ==
    With([k |-> "track_stmt_exec", arg |-> create_stmt_exec_node], body)

_get_func_name(func) ==
    CASE func.k = "Name" -> func.id
      [] func.k = "Attribute" -> func.attr
      [] OTHER -> "<lambda_or_unknown>"

RECURSIVE _get_func_full_name(_)
_get_func_full_name(func) ==
    CASE func.k = "Name" -> func.id
      [] func.k = "Attribute" -> _get_func_full_name(func.value) \o "." \o func.attr
      [] OTHER -> "<lambda_or_unknown>"

RECURSIVE _get_base_name(_)
\* the base name and the access path, as a sequence of at most one pair
_get_base_name(node) ==
    CASE node.k = "Name" -> <<[var_name |-> node.id, access_path |-> node.id]>>
      [] node.k = "Attribute" ->
            LET base == _get_base_name(node.value)
            IN  IF base # <<>>
                THEN <<[var_name |-> base[1].var_name,
                        access_path |-> base[1].access_path \o "." \o node.attr]>>
                ELSE <<>>
      [] node.k = "Subscript" ->
            LET base == _get_base_name(node.value)
            IN  IF base # <<>>
                THEN <<[var_name |-> base[1].var_name,
                        access_path |-> base[1].access_path \o "[" \o unparse(node.slice) \o "]"]>>
                ELSE <<>>
      [] OTHER -> <<>>

RECURSIVE _extract_variable_names(_)
RECURSIVE extract_all(_)
\* the names of the elements of a tuple or list target, in order
extract_all(elts) ==
    IF elts = <<>> THEN <<>>
    ELSE _extract_variable_names(elts[1]) \o extract_all(Tail(elts))

_extract_variable_names(target) ==
    CASE target.k = "Name" -> <<[var_name |-> target.id, access_path |-> target.id]>>
      [] target.k \in {"Tuple", "List"} -> extract_all(target.elts)
      [] target.k = "Starred" ->
            IF target.value.k = "Name"
            THEN <<[var_name |-> target.value.id, access_path |-> target.value.id]>>
            ELSE <<>>
      [] target.k \in {"Attribute", "Subscript"} -> _get_base_name(target)
      [] OTHER -> <<>>

\* no tracking call is appended
_add_variable_tracking_calls_none(statements, variables, lineno) == statements

\* the tracking calls _add_variable_tracking_calls appends to statements
_add_variable_tracking_calls(statements, variables, lineno) ==
    statements \o
        [i \in 1..Len(variables) |->
            _create_variable_tracking_call(variables[i].var_name,
                                           variables[i].access_path, lineno)]

\* the add_arg statements of expand_call: the positional arguments, then the
\* keywords
arg_stmts(node) ==
    [i \in 1..Len(node.args) |->
        _create_add_arg_call("_arg" \o ToString(i - 1), node.args[i])]
    \o [i \in 1..Len(node.keywords) |->
        _create_add_arg_call(node.keywords[i].arg, node.keywords[i].value)]

\* expand_call: the with block of the call and the expression that reads its result
expand_call(node) ==
    LET func_name == _get_func_name(node.func)
        func_full_name == _get_func_full_name(node.func)
        create_func_call == _create_func_call(node, func_name, func_full_name)
        temp_node == Assign(<<Name(tmp_ret_var)>>, node, node.lineno)
        record_ret_node == _create_record_func_return_call(Name(tmp_ret_var))
        new_node == Expr(Name(tmp_ret_var), node.lineno)
    IN  <<_wrap_with_ctx(arg_stmts(node) \o <<temp_node, record_ret_node>>,
                         create_func_call),
          new_node>>

RECURSIVE visit(_)
RECURSIVE visit_stmts(_)
RECURSIVE visit_targets(_, _, _)

\* generic_visit of a list of statements: each is replaced by what visit returns
visit_stmts(stmts) ==
    IF stmts = <<>> THEN <<>> ELSE visit(stmts[1]) \o visit_stmts(Tail(stmts))

\* the loop over node.targets of visit_Assign
visit_targets(statements, targets, lineno) ==
    IF targets = <<>> THEN statements
    ELSE visit_targets(
            _add_variable_tracking_calls(statements,
                                         _extract_variable_names(targets[1]), lineno),
            Tail(targets), lineno)

\* the tracking calls of the loop target, each inserted at the head of the body
for_target_tracking(target, lineno) ==
    LET variables == _extract_variable_names(target)
    IN  [i \in 1..Len(variables) |->
            _create_variable_tracking_call(
                variables[Len(variables) + 1 - i].var_name,
                variables[Len(variables) + 1 - i].access_path, lineno)]

visit_For(node) ==
    LET body == for_target_tracking(node.target, node.lineno) \o visit_stmts(node.body)
        iteration_body == _wrap_with_ctx(body, _create_loop_iter_call)
        expanded_nodes == expand_call(node.iter)
        stmts ==
            IF node.iter.k = "Call"
            THEN expanded_nodes \o
                    <<[node EXCEPT !.body = <<iteration_body>>,
                                   !.iter = expanded_nodes[2].value]>>
            ELSE <<[node EXCEPT !.body = <<iteration_body>>]>>
    IN  <<_wrap_with_ctx(stmts, _create_loop_exec_call(node.lineno, "for"))>>

visit_While(node) ==
    LET iteration_body == _wrap_with_ctx(visit_stmts(node.body), _create_loop_iter_call)
    IN  <<_wrap_with_ctx(<<[node EXCEPT !.body = <<iteration_body>>]>>,
                         _create_loop_exec_call(node.lineno, "while"))>>

visit_Expr(node) ==
    IF node.value.k = "Call"
    THEN LET expanded_nodes == expand_call(node.value)
             obj_name == _get_base_name(node.value.func)
         IN  IF node.value.func.k = "Attribute" /\ obj_name # <<>>
             THEN expanded_nodes \o
                    <<_create_variable_tracking_call(obj_name[1].var_name,
                                                     obj_name[1].var_name, node.lineno)>>
             ELSE expanded_nodes
    ELSE <<node>>

\* the prologue without reset_args
function_prologue_keeps_args(node) ==
    LET tracking(i) ==
            IF i % 2 = 1
            THEN _create_add_arg_call(node.args[(i + 1) \div 2], Name(node.args[(i + 1) \div 2]))
            ELSE _create_variable_tracking_call(node.args[i \div 2], node.args[i \div 2],
                                                node.lineno)
    IN  <<_create_set_func_def_line_num_call(node.lineno)>>
        \o [i \in 1..(2 * Len(node.args)) |-> tracking(i)]

\* the statements visit_FunctionDef puts before the body
function_prologue(node) ==
    LET tracking(i) ==
            IF i % 2 = 1
            THEN _create_add_arg_call(node.args[(i + 1) \div 2], Name(node.args[(i + 1) \div 2]))
            ELSE _create_variable_tracking_call(node.args[i \div 2], node.args[i \div 2],
                                                node.lineno)
    IN  <<_create_reset_args_call, _create_set_func_def_line_num_call(node.lineno)>>
        \o [i \in 1..(2 * Len(node.args)) |-> tracking(i)]

visit_FunctionDef(node) ==
    <<[node EXCEPT !.body = function_prologue(node) \o visit_stmts(node.body)]>>

visit_Assign(node) ==
    LET expanded_nodes == expand_call(node.value)
        statements ==
            IF node.value.k = "Call"
            THEN <<expanded_nodes[1], [node EXCEPT !.value = expanded_nodes[2].value]>>
            ELSE <<node>>
    IN  visit_targets(statements, node.targets, node.lineno)

visit_AugAssign(node) ==
    _add_variable_tracking_calls(<<node>>, _extract_variable_names(node.target),
                                 node.lineno)

visit_AnnAssign(node) ==
    IF node.value.k = "None" THEN <<node>>
    ELSE _add_variable_tracking_calls(<<node>>, _extract_variable_names(node.target),
                                      node.lineno)

visit_If(node) ==
    LET temp_test_cond == Assign(<<Name(temp_cond_var)>>, node.test, node.lineno)
        branch_exec == _create_branch_execution(node.lineno, node.test,
                                                Name(temp_cond_var))
        new_if == If(Name(temp_cond_var), visit_stmts(node.body),
                     visit_stmts(node.orelse), node.lineno)
    IN  <<temp_test_cond, _wrap_with_ctx(<<new_if>>, branch_exec)>>

\* NodeTransformer.visit: the visitor of the node's kind, generic_visit otherwise
visit(node) ==
    CASE node.k = "For" -> visit_For(node)
      [] node.k = "While" -> visit_While(node)
      [] node.k = "Expr" -> visit_Expr(node)
      [] node.k = "FunctionDef" -> visit_FunctionDef(node)
      [] node.k = "Assign" -> visit_Assign(node)
      [] node.k = "AugAssign" -> visit_AugAssign(node)
      [] node.k = "AnnAssign" -> visit_AnnAssign(node)
      [] node.k = "If" -> visit_If(node)
      [] OTHER -> <<node>>

\* StepTracer.transform_code on a module body
transform_code(body) == visit_stmts(body)

----------------------------------------------------------------------------
(* TracerTransformer: core/step_tracer/tracer_transformer.py (the explicit- *)
(* pop transformer).  Each record_* statement pushes a frame and a separate *)
(* pop_execution() statement, placed where the block ends, pops it.  The    *)
(* helpers that build add_arg, set_return_value, reset_args,                *)
(* set_func_def_line_num and record_variable calls, and the visitors of     *)
(* AugAssign and AnnAssign, are the same in both transformers.              *)

\* exec_ctx.pop_execution()
_create_pop_exec_call == [k |-> "pop_execution"]

\* exec_ctx.record_function_call(lineno, func_name, func_full_name)
_create_record_func_call(node, func_name, func_full_name) ==
    [k |-> "record_function_call", lineno |-> node.lineno, func_name |-> func_name,
     func_full_name |-> func_full_name]

\* exec_ctx.record_branch_execution(line_number, unparse(cond), temp_cond)
_create_record_branch_execution_call(line_number, cond, temp_cond) ==
    [k |-> "record_branch_execution", lineno |-> line_number,
     condition_str |-> unparse(cond), value |-> temp_cond]

\* loop_start, loop_end, iteration_start, iteration_end
_create_loop_tracking_calls(lineno, loop_type) ==
    [loop_start |-> [k |-> "record_loop_execution", lineno |-> lineno,
                     loop_type |-> loop_type],
     loop_end |-> _create_pop_exec_call,
     iteration_start |-> [k |-> "record_loop_iteration"],
     iteration_end |-> _create_pop_exec_call]

\* expand_call of the explicit-pop transformer: the statements around the call
\* and, last, the expression that reads its result
core_expand_call(node) ==
    LET func_name == _get_func_name(node.func)
        func_full_name == _get_func_full_name(node.func)
        record_func_node == _create_record_func_call(node, func_name, func_full_name)
        assign_node == Assign(<<Name(tmp_ret_var)>>, node, node.lineno)
        record_ret_node == _create_record_func_return_call(Name(tmp_ret_var))
        new_node == Expr(Name(tmp_ret_var), node.lineno)
        pop_node == _create_pop_exec_call
    IN  <<record_func_node>> \o arg_stmts(node)
            \o <<assign_node, record_ret_node, pop_node, new_node>>

RECURSIVE core_visit(_)
RECURSIVE core_visit_stmts(_)

\* generic_visit of a list of statements by the explicit-pop transformer
core_visit_stmts(stmts) ==
    IF stmts = <<>> THEN <<>> ELSE core_visit(stmts[1]) \o core_visit_stmts(Tail(stmts))

\* the body of a loop: iteration_start is inserted at its head and
\* iteration_end appended at its end
core_loop_body(node, calls) ==
    <<calls.iteration_start>> \o core_visit_stmts(node.body) \o <<calls.iteration_end>>

core_visit_For(node) ==
    LET calls == _create_loop_tracking_calls(node.lineno, "for")
    IN  <<calls.loop_start, [node EXCEPT !.body = core_loop_body(node, calls)],
          calls.loop_end>>

core_visit_While(node) ==
    LET calls == _create_loop_tracking_calls(node.lineno, "while")
    IN  <<calls.loop_start, [node EXCEPT !.body = core_loop_body(node, calls)],
          calls.loop_end>>

core_visit_Expr(node) ==
    IF node.value.k = "Call"
    THEN LET expanded_nodes == core_expand_call(node.value)
             obj_name == _get_base_name(node.value.func)
         IN  IF node.value.func.k = "Attribute" /\ obj_name # <<>>
             THEN expanded_nodes \o
                    <<_create_variable_tracking_call(obj_name[1].var_name,
                                                     obj_name[1].var_name, node.lineno)>>
             ELSE expanded_nodes
    ELSE <<node>>

core_visit_FunctionDef(node) ==
    <<[node EXCEPT !.body = function_prologue(node) \o core_visit_stmts(node.body)]>>

core_visit_Assign(node) ==
    LET expanded_nodes == core_expand_call(node.value)
        statements ==
            IF node.value.k = "Call"
            THEN Front(expanded_nodes)
                    \o <<[node EXCEPT !.value = Last(expanded_nodes).value]>>
            ELSE <<node>>
    IN  visit_targets(statements, node.targets, node.lineno)

core_visit_If(node) ==
    LET temp_test_cond == Assign(<<Name(temp_cond_var)>>, node.test, node.lineno)
        record_branch_exec ==
            _create_record_branch_execution_call(node.lineno, node.test,
                                                 Name(temp_cond_var))
        branch_end == _create_pop_exec_call
        new_if == If(Name(temp_cond_var), core_visit_stmts(node.body),
                     core_visit_stmts(node.orelse), node.lineno)
    IN  <<temp_test_cond, record_branch_exec, new_if, branch_end>>

\* NodeTransformer.visit of the explicit-pop transformer
core_visit(node) ==
    CASE node.k = "For" -> core_visit_For(node)
      [] node.k = "While" -> core_visit_While(node)
      [] node.k = "Expr" -> core_visit_Expr(node)
      [] node.k = "FunctionDef" -> core_visit_FunctionDef(node)
      [] node.k = "Assign" -> core_visit_Assign(node)
      [] node.k = "AugAssign" -> visit_AugAssign(node)
      [] node.k = "AnnAssign" -> visit_AnnAssign(node)
      [] node.k = "If" -> core_visit_If(node)
      [] OTHER -> <<node>>

\* StepTracer.transform_code with the explicit-pop transformer
core_transform_code(body) == core_visit_stmts(body)

----------------------------------------------------------------------------
(* The values and the expressions of a running program.  A list lives on    *)
(* the heap and a variable holds a reference to it; a deep copy of a list   *)
(* is a value that carries the items themselves.                            *)

BoolVal(b) == [t |-> "bool", n |-> IF b THEN 1 ELSE 0, items |-> <<>>]
RefVal(addr) == [t |-> "ref", n |-> addr, items |-> <<>>]
ListVal(items) == [t |-> "list", n |-> 0, items |-> items]
\* an object copy.deepcopy raises on (a generator, a lock, an open file)
OpaqueVal == [t |-> "opaque", n |-> 0, items |-> <<>>]

IsTrue(v) ==
    CASE v.t = "ref" -> TRUE
      [] v.t = "list" -> v.items # <<>>
      [] v.t = "opaque" -> TRUE
      [] OTHER -> v.n # 0

\* whether copy.deepcopy(x) returns (it raises on an opaque object)
deep_copyable(x, heap) ==
    CASE x.t = "ref" -> \A i \in 1..Len(heap[x.n]) : heap[x.n][i].t # "opaque"
      [] x.t = "opaque" -> FALSE
      [] OTHER -> TRUE

\* the reference is handed back: no copy is made
safe_deepcopy_shallow(x, heap) == x

\* StepTracerUtils.safe_deepcopy
safe_deepcopy(x, heap) ==
    IF deep_copyable(x, heap)
    THEN IF x.t = "ref" THEN ListVal(heap[x.n]) ELSE x
    ELSE x

\* what a reader of value v sees when the heap is heap
Seen(v, heap) == IF v.t = "ref" THEN ListVal(heap[v.n]) ELSE v

\* the place of an expression that waits for the result of a call
Hole == [k |-> "Hole"]

RECURSIVE Plug(_, _)
RECURSIVE PlugSeq(_, _)
\* expression e with its Hole replaced by the value v
Plug(e, v) ==
    CASE e.k = "Hole" -> Constant(v)
      [] e.k \in {"BinOp", "Compare"} ->
            [e EXCEPT !.left = Plug(e.left, v), !.right = Plug(e.right, v)]
      [] e.k = "Call" ->
            [e EXCEPT !.args = PlugSeq(e.args, v),
                      !.keywords = [i \in 1..Len(e.keywords) |->
                                        keyword(e.keywords[i].arg,
                                                Plug(e.keywords[i].value, v))]]
      [] e.k = "Subscript" ->
            [e EXCEPT !.value = Plug(e.value, v), !.slice = Plug(e.slice, v)]
      [] e.k \in {"List", "Tuple"} -> [e EXCEPT !.elts = PlugSeq(e.elts, v)]
      [] OTHER -> e

PlugSeq(es, v) == [i \in 1..Len(es) |-> Plug(es[i], v)]

\* the value of name in the local namespace loc, else in the globals glob
Lookup(name, loc, glob) ==
    IF name \in DOMAIN loc THEN <<loc[name]>>
    ELSE IF name \in DOMAIN glob THEN <<glob[name]>>
    ELSE <<>>

Arith(op, a, b) ==
    CASE op = "+" -> IntVal(a.n + b.n)
      [] op = "-" -> IntVal(a.n - b.n)
      [] op = "*" -> IntVal(a.n * b.n)
      [] op = ">" -> BoolVal(a.n > b.n)
      [] op = "<" -> BoolVal(a.n < b.n)
      [] op = "==" -> BoolVal(a.n = b.n)
      [] OTHER -> NoneVal

\* the result of evaluating an expression as far as the next call of a function
\* of the program: a value (done), an exception (exc), or the call to make and
\* the expression that waits for its result (rest)
Value(v, heap) == [done |-> TRUE, val |-> v, heap |-> heap, exc |-> "", call |-> <<>>, rest |-> NoNode]
Raises(exc, heap) == [done |-> FALSE, val |-> NoneVal, heap |-> heap, exc |-> exc, call |-> <<>>, rest |-> NoNode]
Calls(func, args, kwargs, heap) == [done |-> FALSE, val |-> NoneVal, heap |-> heap, exc |-> "", call |-> <<[func |-> func, args |-> args, kwargs |-> kwargs]>>, rest |-> Hole]

RangeItems(n) == [i \in 1..n |-> IntVal(i - 1)]

RECURSIVE Eval(_, _)
RECURSIVE EvalSeq(_, _)

\* the expressions es evaluated left to right: val.items holds the values, rest
\* (a List node) the expressions with the evaluated ones replaced by their values
EvalSeq(es, env) ==
    IF es = <<>> THEN Value(ListVal(<<>>), env.heap)
    ELSE LET r1 == Eval(es[1], env)
             r2 == EvalSeq(Tail(es), [env EXCEPT !.heap = r1.heap])
         IN  IF r1.exc # "" THEN r1
             ELSE IF ~r1.done THEN [r1 EXCEPT !.rest = List(<<r1.rest>> \o Tail(es))]
             ELSE IF r2.exc # "" THEN r2
             ELSE IF ~r2.done
                  THEN [r2 EXCEPT !.rest = List(<<Constant(r1.val)>> \o r2.rest.elts)]
             ELSE Value(ListVal(<<r1.val>> \o r2.val.items), r2.heap)

\* a call of a builtin: range, len, list.append, list.pop
EvalBuiltin(e, args, heap, env) ==
    LET obj == IF e.func.k = "Attribute" THEN Eval(e.func.value, env) ELSE Value(NoneVal, heap)
    IN  CASE e.func.k = "Name" /\ e.func.id = "range" /\ Len(args) = 1 ->
                Value(RefVal(Len(heap) + 1), Append(heap, RangeItems(args[1].n)))
          [] e.func.k = "Name" /\ e.func.id = "len" /\ Len(args) = 1 /\ args[1].t = "ref" ->
                Value(IntVal(Len(heap[args[1].n])), heap)
          [] e.func.k = "Attribute" /\ obj.done /\ obj.val.t = "ref"
                /\ e.func.attr = "append" /\ Len(args) = 1 ->
                Value(NoneVal, [heap EXCEPT ![obj.val.n] = Append(@, args[1])])
          [] e.func.k = "Attribute" /\ obj.done /\ obj.val.t = "ref"
                /\ e.func.attr = "pop" /\ args = <<>> /\ heap[obj.val.n] # <<>> ->
                Value(Last(heap[obj.val.n]), [heap EXCEPT ![obj.val.n] = Front(@)])
          [] e.func.k = "Attribute" /\ obj.done /\ obj.val.t = "ref"
                /\ e.func.attr = "pop" /\ args = <<>> /\ heap[obj.val.n] = <<>> ->
                Raises("IndexError", heap)
          [] e.func.k = "Name" -> Raises("NameError", heap)
          [] OTHER -> Raises("AttributeError", heap)

Eval(e, env) ==
    CASE e.k = "Constant" -> Value(e.value, env.heap)
      [] e.k = "Name" ->
            LET v == Lookup(e.id, env.loc, env.glob)
            IN  IF v = <<>> THEN Raises("NameError", env.heap) ELSE Value(v[1], env.heap)
      [] e.k \in {"BinOp", "Compare"} ->
            LET r == EvalSeq(<<e.left, e.right>>, env)
            IN  IF r.exc # "" THEN r
                ELSE IF ~r.done
                     THEN [r EXCEPT !.rest = [e EXCEPT !.left = r.rest.elts[1],
                                                       !.right = r.rest.elts[2]]]
                ELSE Value(Arith(e.op, r.val.items[1], r.val.items[2]), r.heap)
      [] e.k = "List" ->
            LET r == EvalSeq(e.elts, env)
            IN  IF r.exc # "" \/ ~r.done THEN r
                ELSE Value(RefVal(Len(r.heap) + 1), Append(r.heap, r.val.items))
      [] e.k = "Subscript" ->
            LET r == EvalSeq(<<e.value, e.slice>>, env)
                obj == r.val.items[1]
                idx == r.val.items[2].n
            IN  IF r.exc # "" THEN r
                ELSE IF ~r.done
                     THEN [r EXCEPT !.rest = [e EXCEPT !.value = r.rest.elts[1],
                                                       !.slice = r.rest.elts[2]]]
                ELSE IF obj.t # "ref" THEN Raises("TypeError", r.heap)
                ELSE IF idx + 1 \notin 1..Len(r.heap[obj.n]) THEN Raises("IndexError", r.heap)
                ELSE Value(r.heap[obj.n][idx + 1], r.heap)
      [] e.k = "Call" ->
            LET ra == EvalSeq(e.args, env)
                rk == EvalSeq([i \in 1..Len(e.keywords) |-> e.keywords[i].value],
                              [env EXCEPT !.heap = ra.heap])
                kwargs == [i \in 1..Len(e.keywords) |->
                                keyword(e.keywords[i].arg, rk.val.items[i])]
            IN  IF ra.exc # "" THEN ra
                ELSE IF ~ra.done THEN [ra EXCEPT !.rest = [e EXCEPT !.args = ra.rest.elts]]
                ELSE IF rk.exc # "" THEN rk
                ELSE IF ~rk.done
                     THEN [rk EXCEPT !.rest =
                            [e EXCEPT !.args = [i \in 1..Len(e.args) |->
                                                    Constant(ra.val.items[i])],
                                      !.keywords = [i \in 1..Len(e.keywords) |->
                                                    keyword(e.keywords[i].arg,
                                                            rk.rest.elts[i])]]]
                ELSE IF e.func.k = "Name" /\ e.func.id \in DOMAIN env.funcs
                     THEN Calls(e.func.id, ra.val.items, kwargs, rk.heap)
                ELSE EvalBuiltin(e, ra.val.items, rk.heap, [env EXCEPT !.heap = rk.heap])
      [] OTHER -> Raises("SyntaxError", env.heap)

----------------------------------------------------------------------------
(* The interpreter: exec() of the instrumented program.  A Python frame     *)
(* holds its local names and, in k, what it has still to run: the rest of   *)
(* each block it is in, innermost last, with an entry for each with block   *)
(* and each loop it is inside.  A break, continue, return or exception      *)
(* travels outwards as interp.signal, one block at a time.                  *)

Signal(kind, value) == [kind |-> kind, value |-> value]

SeqEntry(stmts) == [k |-> "seq", stmts |-> stmts]
\* frame: the place in the trace of the record the block pushed; exec_stack and
\* scope_stack: the stacks when the with statement was reached
WithEntry(frame, exec_stack, scope_stack) ==
    [k |-> "with", frame |-> frame, exec_stack |-> exec_stack,
     scope_stack |-> scope_stack]
\* items: the items the for loop has still to take; loop: its place in ghost.loops
ForEntry(node, items, loop) == [k |-> "for", node |-> node, items |-> items, loop |-> loop]
WhileEntry(node, loop) == [k |-> "while", node |-> node, loop |-> loop]
\* the test of a while loop, about to be evaluated
WhileTest(node, loop) == [k |-> "while_test", test |-> node.test, node |-> node, loop |-> loop]
\* current_execution.<method>(..., value) whose receiver (the record at place
\* target of the trace) was taken before a call in value began
BoundCall(method, target, name, value) ==
    [k |-> "bound", method |-> method, target |-> target, name |-> name, value |-> value]

\* call: the place in ghost.calls of the traced call that made the frame, 0 when
\* the call was not wrapped by expand_call; fresh: no statement has run yet
PyFrame(func, loc, body, call) ==
    [func |-> func, loc |-> loc, k |-> <<SeqEntry(body)>>, call |-> call, fresh |-> TRUE]

RECURSIVE StripK(_, _)
\* k without the blocks on top that have nothing left to run (every plain block
\* when a signal travels)
StripK(k, unwinding) ==
    IF k # <<>> /\ Last(k).k = "seq" /\ (unwinding \/ Last(k).stmts = <<>>)
    THEN StripK(Front(k), unwinding)
    ELSE k

Settle(it) ==
    IF it.frames = <<>> THEN it
    ELSE [it EXCEPT !.frames[Len(it.frames)].k = StripK(@, it.signal.kind # "none")]

Running == interp.status = "running"
Fr == Last(interp.frames)
K == Fr.k
Top == Last(K)
Stmt == Head(Top.stmts)

\* the interpreter is about to run the statement Stmt
AtStmt ==
    /\ Running
    /\ pending = <<>>
    /\ interp.signal.kind = "none"
    /\ K # <<>>
    /\ Top.k = "seq"

Env ==
    [loc |-> Fr.loc, glob |-> interp.frames[1].loc, heap |-> interp.heap,
     funcs |-> interp.funcs]

\* the calls on the execution context the explicit-pop transformer inserts
ContextCalls ==
    {"record_loop_execution", "record_loop_iteration", "record_function_call",
     "record_branch_execution", "pop_execution"}

TracerCalls == {"add_arg", "set_return_value", "reset_args", "set_func_def_line_num", "bound"}

\* the expression a statement evaluates
ActiveExpr(st) ==
    CASE st.k \in {"Assign", "AnnAssign", "Expr", "Return", "add_arg",
                   "set_return_value", "bound", "record_branch_execution"} -> st.value
      [] st.k = "AugAssign" -> BinOp(st.target, st.op, st.value)
      [] st.k \in {"If", "while_test"} -> st.test
      [] st.k = "For" -> st.iter
      [] OTHER -> Constant(NoneVal)

\* the place in the trace of the receiver of a call on current_execution
Receiver(st) == IF st.k = "bound" THEN st.target ELSE current_execution(exec_ctx)

\* whether the receiver is a FunctionCall: the other records, and None, have no
\* add_arg, set_return_value, reset_args or set_func_def_line_num
ReceiverIsCall(st) ==
    /\ Receiver(st) # 0
    /\ exec_ctx.execution_trace[Receiver(st)].stmt_type = "function"

\* statement st waiting for the result of a call made in its expression
Waiting(st, rest) ==
    CASE st.k = "AugAssign" -> Assign(<<st.target>>, rest, st.lineno)
      [] st.k \in {"If", "while_test"} -> [st EXCEPT !.test = rest]
      [] st.k = "For" -> [st EXCEPT !.iter = rest]
      [] st.k = "add_arg" -> BoundCall("add_arg", Receiver(st), st.name, rest)
      [] st.k = "set_return_value" -> BoundCall("set_return_value", Receiver(st), "", rest)
      [] OTHER -> [st EXCEPT !.value = rest]

\* the evaluation of the expression of the statement about to run
R == Eval(ActiveExpr(Stmt), Env)

\* the interpreter with the statement about to run replaced by stmts
ReplaceStmt(it, stmts) ==
    LET n == Len(it.frames)
        m == Len(it.frames[n].k)
    IN  [it EXCEPT !.frames[n].k[m].stmts = stmts \o Tail(@),
                   !.frames[n].fresh = FALSE]

Advance(it) == ReplaceStmt(it, <<>>)

\* block stmts entered from the statement about to run
Enter(it, entries) ==
    LET it1 == Advance(it)
        n == Len(it1.frames)
    IN  [it1 EXCEPT !.frames[n].k = @ \o entries]

PopEntry(it) == [it EXCEPT !.frames[Len(it.frames)].k = Front(@)]

Throw(it, exc) ==
    [it EXCEPT !.signal = Signal("raise", NoneVal), !.exc = exc,
               !.frames[Len(it.frames)].fresh = FALSE]

RECURSIVE Store(_, _, _)
RECURSIVE StoreAll(_, _, _, _)
\* the assignment of value v to a target: the interpreter it leaves (its exc is
\* set when the assignment raises)
Store(it, target, v) ==
    LET n == Len(it.frames)
        env == [loc |-> it.frames[n].loc, glob |-> it.frames[1].loc, heap |-> it.heap,
                funcs |-> it.funcs]
    IN  CASE target.k = "Name" ->
                [it EXCEPT !.frames[n].loc = (target.id :> v) @@ @]
          [] target.k = "Subscript" ->
                LET r == EvalSeq(<<target.value, target.slice>>, env)
                    obj == r.val.items[1]
                    idx == r.val.items[2].n
                IN  IF r.exc # "" THEN [it EXCEPT !.exc = r.exc]
                    ELSE IF obj.t # "ref" THEN [it EXCEPT !.exc = "TypeError"]
                    ELSE IF idx + 1 \notin 1..Len(it.heap[obj.n])
                         THEN [it EXCEPT !.exc = "IndexError"]
                    ELSE [it EXCEPT !.heap[obj.n][idx + 1] = v]
          [] target.k \in {"Tuple", "List"} ->
                IF v.t # "ref" THEN [it EXCEPT !.exc = "TypeError"]
                ELSE IF Len(it.heap[v.n]) # Len(target.elts)
                     THEN [it EXCEPT !.exc = "ValueError"]
                ELSE StoreAll(it, target.elts, it.heap[v.n], 1)
          [] OTHER -> [it EXCEPT !.exc = "SyntaxError"]

\* targets[i] is given vs[i], for i from the place from on
StoreAll(it, targets, vs, from) ==
    IF from > Len(targets) \/ it.exc # "" THEN it
    ELSE StoreAll(Store(it, targets[from], vs[from]), targets, vs, from + 1)

----------------------------------------------------------------------------
(* What the running program did, as the interpreter saw it *)

RECURSIVE BoundNames(_)
RECURSIVE BoundNamesAll(_)
\* the variables an assignment to target binds or changes, in order
BoundNames(target) ==
    CASE target.k = "Name" -> <<target.id>>
      [] target.k \in {"Tuple", "List"} -> BoundNamesAll(target.elts)
      [] target.k \in {"Attribute", "Subscript", "Starred"} -> BoundNames(target.value)
      [] OTHER -> <<>>

BoundNamesAll(targets) ==
    IF targets = <<>> THEN <<>>
    ELSE BoundNames(targets[1]) \o BoundNamesAll(Tail(targets))

\* the names the transformer makes up
Synthesized == {tmp_ret_var, temp_cond_var}

\* the snapshots the assignment st owes: one for each variable of the program
\* its targets bind
Owed(st) ==
    LET names == BoundNamesAll(IF st.k = "Assign" THEN st.targets ELSE <<st.target>>)
    IN  IF \E i \in 1..Len(names) : names[i] \in Synthesized THEN <<>>
        ELSE [i \in 1..Len(names) |-> [name |-> names[i], line |-> st.lineno]]

\* the first statement of a function body runs: who is on top of the stack,
\* and what the parameters hold
PrologueEntry ==
    [func |-> Fr.func,
     top |-> current_execution(exec_ctx),
     own |-> IF Fr.call = 0 THEN 0 ELSE ghost.calls[Fr.call].frame,
     params |-> LET def == interp.funcs[Fr.func]
                IN  [i \in 1..Len(def.args) |->
                        [name |-> def.args[i],
                         value |-> Seen(Fr.loc[def.args[i]], interp.heap)]]]

StartsPrologue ==
    Len(interp.frames) > 1 /\ Fr.fresh /\ Stmt.k \in TracerCalls

LogPrologue(g) ==
    IF StartsPrologue THEN [g EXCEPT !.prologues = Append(@, PrologueEntry)] ELSE g

\* the statement about to run is the assignment expand_call makes of a call,
\* inside the with block of that call
InTracedCall ==
    /\ Stmt.k = "Assign"
    /\ Stmt.targets = <<Name(tmp_ret_var)>>
    /\ Len(K) > 1
    /\ K[Len(K) - 1].k = "with"
    /\ exec_ctx.execution_trace[K[Len(K) - 1].frame].stmt_type = "function"

----------------------------------------------------------------------------
(* The steps of the interpreter *)

\* Assign, AugAssign, AnnAssign: the value is stored in the targets
ExecAssignment ==
    /\ AtStmt
    /\ Stmt.k \in {"Assign", "AugAssign", "AnnAssign"}
    /\ (Stmt.k = "AnnAssign" /\ Stmt.value.k = "None") \/ R.done
    /\ LET novalue == Stmt.k = "AnnAssign" /\ Stmt.value.k = "None"
           targets == IF Stmt.k = "Assign" THEN Stmt.targets ELSE <<Stmt.target>>
           it == StoreAll([interp EXCEPT !.heap = R.heap], targets,
                          [i \in 1..Len(targets) |-> R.val], 1)
       IN  /\ ~novalue => it.exc = ""
           /\ interp' = Settle(Advance(IF novalue THEN interp ELSE it))
           /\ ghost' = [ghost EXCEPT !.owed = IF novalue THEN <<>> ELSE Owed(Stmt)]
    /\ UNCHANGED <<exec_ctx, pending, error, query>>
    /\ Observe

\* an expression statement: the value is dropped
ExecExpr ==
    /\ AtStmt
    /\ Stmt.k = "Expr"
    /\ R.done
    /\ interp' = Settle(Advance([interp EXCEPT !.heap = R.heap]))
    /\ ghost' = [ghost EXCEPT !.owed = <<>>]
    /\ UNCHANGED <<exec_ctx, pending, error, query>>
    /\ Observe

\* current_execution.add_arg / set_return_value / reset_args /
\* set_func_def_line_num on a FunctionCall
ExecTracerCall ==
    /\ AtStmt
    /\ Stmt.k \in TracerCalls
    /\ ReceiverIsCall(Stmt)
    /\ R.done
    /\ LET idx == Receiver(Stmt)
           method == IF Stmt.k = "bound" THEN Stmt.method ELSE Stmt.k
           value == safe_deepcopy(R.val, R.heap)
           e == exec_ctx.execution_trace[idx]
       IN  exec_ctx' =
              [exec_ctx EXCEPT !.execution_trace[idx] =
                  CASE method = "add_arg" -> add_arg(e, Stmt.name, value)
                    [] method = "set_return_value" -> set_return_value(e, value)
                    [] method = "reset_args" -> reset_args(e)
                    [] OTHER -> set_func_def_line_num(e, Stmt.line_num)]
    /\ interp' = Settle(Advance([interp EXCEPT !.heap = R.heap]))
    /\ ghost' = LogPrologue([ghost EXCEPT !.owed = <<>>])
    /\ UNCHANGED <<pending, error, query>>
    /\ Observe

\* record_variable(name, safe_deepcopy(<name>), access_path, line)
ExecRecordVariable ==
    /\ AtStmt
    /\ Stmt.k = "record_variable"
    /\ LET v == Lookup(Stmt.var_name, Fr.loc, interp.frames[1].loc)
       IN  /\ v # <<>>
           /\ exec_ctx' = record_variable(exec_ctx, Stmt.var_name,
                                          safe_deepcopy(v[1], interp.heap),
                                          Stmt.access_path, Stmt.line_no)
           /\ ghost' = [ghost EXCEPT
                          !.owed = IF @ = <<>> THEN <<>> ELSE Tail(@),
                          !.seen = Append(@, [held |-> v[1],
                                              content |-> Seen(v[1], interp.heap),
                                              copyable |-> deep_copyable(v[1], interp.heap)])]
    /\ interp' = Settle(Advance(interp))
    /\ UNCHANGED <<pending, error, query>>
    /\ Observe

\* the statements of the explicit-pop transformer: a record_* call pushes a
\* frame, pop_execution() pops the frame on top of the stack, whichever it is
ExecContextCall ==
    /\ AtStmt
    /\ Stmt.k \in ContextCalls
    /\ Stmt.k = "record_loop_iteration" => loop_is_active(exec_ctx)
    /\ Stmt.k = "pop_execution" => exec_ctx.execution_stack # <<>>
    /\ Stmt.k = "record_branch_execution" => R.exc = ""
    /\ exec_ctx' =
          CASE Stmt.k = "record_loop_execution" ->
                  record_loop_execution(exec_ctx, Stmt.lineno, Stmt.loop_type)
            [] Stmt.k = "record_loop_iteration" -> record_loop_iteration(exec_ctx)
            [] Stmt.k = "record_function_call" ->
                  record_function_call(exec_ctx, Stmt.lineno, Stmt.func_name,
                                       Stmt.func_full_name)
            [] Stmt.k = "record_branch_execution" ->
                  record_branch_execution(exec_ctx, Stmt.lineno, Stmt.condition_str,
                                          IsTrue(R.val))
            [] OTHER -> pop_execution(exec_ctx)
    /\ interp' = Settle(Advance(interp))
    /\ ghost' = [ghost EXCEPT !.owed = <<>>]
    /\ UNCHANGED <<pending, error, query>>
    /\ Observe

\* with track_stmt_exec(create_*(...)): the argument is evaluated, a factory runs
ExecWithCreate ==
    /\ AtStmt
    /\ Stmt.k = "With"
    /\ LET create == Stmt.context_expr.arg
           cond == Lookup(temp_cond_var, Fr.loc, interp.frames[1].loc)
           r == CASE create.k = "create_loop_execution" ->
                        create_loop_execution(exec_ctx, create.lineno, create.loop_type)
                  [] create.k = "create_loop_iteration" ->
                        create_loop_iteration(exec_ctx)
                  [] create.k = "create_function_call" ->
                        create_function_call(exec_ctx, create.lineno, create.func_name,
                                             create.func_full_name)
                  [] OTHER ->
                        create_branch_execution(exec_ctx, create.lineno,
                                                create.condition_str, IsTrue(cond[1]))
       IN  /\ create.k = "create_loop_iteration" => loop_is_active(exec_ctx)
           /\ create.k = "create_branch_execution" => cond # <<>>
           /\ exec_ctx' = r.ctx
           /\ pending' = <<r.e>>
    /\ interp' = [interp EXCEPT !.frames[Len(interp.frames)].fresh = FALSE]
    /\ ghost' = [ghost EXCEPT !.owed = <<>>]
    /\ UNCHANGED <<error, query>>
    /\ Observe

\* __enter__ of the tracker: the frame is pushed and the block begins
ExecWithEnter ==
    /\ Running
    /\ pending # <<>>
    /\ exec_ctx' = track_stmt_exec_enter(exec_ctx, pending[1])
    /\ pending' = <<>>
    /\ interp' = Settle(Enter(interp,
                    <<WithEntry(Len(exec_ctx.execution_trace) + 1,
                                exec_ctx.execution_stack, exec_ctx.scope_stack),
                      SeqEntry(Stmt.body)>>))
    /\ UNCHANGED <<error, ghost, query>>
    /\ Observe

\* __exit__ of the tracker: control leaves the block, by its end or by a signal
ExecWithExit ==
    /\ Running
    /\ pending = <<>>
    /\ K # <<>>
    /\ Top.k = "with"
    /\ exec_ctx' = track_stmt_exec_exit(exec_ctx)
    /\ interp' = Settle(PopEntry(interp))
    /\ ghost' = [ghost EXCEPT
                    !.owed = <<>>,
                    !.left = <<[how |-> interp.signal.kind,
                                frame |-> Top.frame,
                                entered |-> <<Top.exec_stack, Top.scope_stack>>,
                                after |-> <<exec_ctx'.execution_stack,
                                            exec_ctx'.scope_stack>>]>>]
    /\ UNCHANGED <<pending, error, query>>
    /\ Observe

\* if: the block of the branch taken begins
ExecIf ==
    /\ AtStmt
    /\ Stmt.k = "If"
    /\ R.done
    /\ interp' = Settle(Enter([interp EXCEPT !.heap = R.heap],
                    <<SeqEntry(IF IsTrue(R.val) THEN Stmt.body ELSE Stmt.orelse)>>))
    /\ ghost' = [ghost EXCEPT !.owed = <<>>]
    /\ UNCHANGED <<exec_ctx, pending, error, query>>
    /\ Observe

\* for, while: the loop statement begins (the iterable of a for is evaluated)
ExecLoopStart ==
    /\ AtStmt
    /\ Stmt.k \in {"For", "While"}
    /\ Stmt.k = "For" => R.done /\ R.val.t = "ref"
    /\ LET loop == Len(ghost.loops) + 1
       IN  interp' =
              IF Stmt.k = "For"
              THEN Settle(Enter([interp EXCEPT !.heap = R.heap],
                                <<ForEntry(Stmt, R.heap[R.val.n], loop)>>))
              ELSE Settle(Enter(interp, <<WhileEntry(Stmt, loop)>>))
    /\ ghost' = [ghost EXCEPT
                    !.owed = <<>>,
                    !.loops = Append(@, [frame |-> current_execution(exec_ctx),
                                         passes |-> 0])]
    /\ UNCHANGED <<exec_ctx, pending, error, query>>
    /\ Observe

\* the loop goes on to its next pass, or ends: a for takes its next item, a
\* while evaluates its test
ExecLoopNext ==
    /\ Running
    /\ pending = <<>>
    /\ interp.signal.kind = "none"
    /\ K # <<>>
    /\ \/ /\ Top.k = "for"
          /\ Top.items = <<>>
          /\ interp' = Settle(PopEntry(interp))
          /\ UNCHANGED ghost
       \/ /\ Top.k = "for"
          /\ Top.items # <<>>
          /\ LET n == Len(interp.frames)
                 m == Len(K)
                 it == Store([interp EXCEPT !.frames[n].k[m].items = Tail(@)],
                             Top.node.target, Head(Top.items))
             IN  interp' = IF it.exc # ""
                           THEN Settle(Throw(it, it.exc))
                           ELSE Settle([it EXCEPT !.frames[n].k =
                                            Append(@, SeqEntry(Top.node.body))])
          /\ ghost' = [ghost EXCEPT !.loops[Top.loop].passes = @ + 1]
       \/ /\ Top.k = "while"
          /\ interp' = [interp EXCEPT !.frames[Len(interp.frames)].k =
                            Append(@, SeqEntry(<<WhileTest(Top.node, Top.loop)>>))]
          /\ UNCHANGED ghost
       \/ /\ Top.k = "seq"
          /\ Stmt.k = "while_test"
          /\ R.done
          /\ LET it == Advance([interp EXCEPT !.heap = R.heap])
                 n == Len(interp.frames)
             IN  interp' =
                    IF IsTrue(R.val)
                    THEN Settle([it EXCEPT !.frames[n].k =
                                    Front(@) \o <<SeqEntry(Stmt.node.body)>>])
                    ELSE Settle([it EXCEPT !.frames[n].k = Front(Front(@))])
          /\ ghost' = IF IsTrue(R.val)
                      THEN [ghost EXCEPT !.loops[Stmt.loop].passes = @ + 1]
                      ELSE ghost
    /\ UNCHANGED <<exec_ctx, pending, error, query>>
    /\ Observe

\* def: the name is bound to the function
ExecFunctionDef ==
    /\ AtStmt
    /\ Stmt.k = "FunctionDef"
    /\ interp' = Settle(Advance([interp EXCEPT !.funcs = (Stmt.name :> Stmt) @@ @]))
    /\ ghost' = [ghost EXCEPT !.owed = <<>>]
    /\ UNCHANGED <<exec_ctx, pending, error, query>>
    /\ Observe

\* return, break, continue, raise: control leaves the blocks it is in
ExecJump ==
    /\ AtStmt
    /\ Stmt.k \in {"Return", "Break", "Continue", "Raise"}
    /\ Stmt.k = "Return" => R.done
    /\ interp' =
          CASE Stmt.k = "Return" ->
                  Settle([interp EXCEPT !.heap = R.heap,
                                        !.signal = Signal("return", R.val),
                                        !.frames[Len(interp.frames)].fresh = FALSE])
            [] Stmt.k = "Break" -> Settle([interp EXCEPT !.signal = Signal("break", NoneVal)])
            [] Stmt.k = "Continue" ->
                  Settle([interp EXCEPT !.signal = Signal("continue", NoneVal)])
            [] OTHER -> Settle(Throw(interp, Stmt.exc))
    /\ ghost' = [ghost EXCEPT !.owed = <<>>]
    /\ UNCHANGED <<exec_ctx, pending, error, query>>
    /\ Observe

\* a signal reaches a loop: break ends it, continue goes to its next pass,
\* return and an exception go through it
UnwindLoop ==
    /\ Running
    /\ pending = <<>>
    /\ interp.signal.kind # "none"
    /\ K # <<>>
    /\ Top.k \in {"for", "while"}
    /\ interp' =
          CASE interp.signal.kind = "break" ->
                  Settle([PopEntry(interp) EXCEPT !.signal = NoSignal])
            [] interp.signal.kind = "continue" -> [interp EXCEPT !.signal = NoSignal]
            [] OTHER -> Settle(PopEntry(interp))
    /\ UNCHANGED <<exec_ctx, pending, error, ghost, query>>
    /\ Observe

\* the value of parameter i of def in the call
ParamValue(def, call, i) ==
    IF i <= Len(call.args) THEN call.args[i]
    ELSE LET j == CHOOSE j \in 1..Len(call.kwargs) : call.kwargs[j].arg = def.args[i]
         IN  call.kwargs[j].value

\* whether the call gives each parameter of def one value
ArityOK(def, call) ==
    /\ Len(call.args) + Len(call.kwargs) = Len(def.args)
    /\ \A i \in (Len(call.args) + 1)..Len(def.args) :
            \E j \in 1..Len(call.kwargs) : call.kwargs[j].arg = def.args[i]

\* the names a call binds in the frame of the function
BindParams(def, call) ==
    [p \in {def.args[i] : i \in 1..Len(def.args)} |->
        ParamValue(def, call, CHOOSE i \in 1..Len(def.args) : def.args[i] = p)]

\* the statement about to run calls a function of the program: a Python frame
\* is made for it and the statement waits for its result
CallFunction ==
    /\ AtStmt
    /\ Stmt.k \in TracerCalls => ReceiverIsCall(Stmt)
    /\ Stmt.k \notin {"With", "FunctionDef", "record_variable", "Break", "Continue",
                      "Raise", "While", "reset_args", "set_func_def_line_num"}
    /\ ~(Stmt.k = "AnnAssign" /\ Stmt.value.k = "None")
    /\ ~R.done
    /\ R.exc = ""
    /\ LET call == R.call[1]
           def == interp.funcs[call.func]
           traced == InTracedCall /\ R.rest = Hole
           it == ReplaceStmt([interp EXCEPT !.heap = R.heap], <<Waiting(Stmt, R.rest)>>)
       IN  /\ ArityOK(def, call)
           /\ interp' = [it EXCEPT !.frames =
                            Append(@, PyFrame(call.func, BindParams(def, call), def.body,
                                              IF traced THEN Len(ghost.calls) + 1 ELSE 0))]
           /\ ghost' =
                 (IF traced
                  THEN [ghost EXCEPT
                          !.owed = <<>>,
                          !.calls = Append(@,
                              [frame |-> K[Len(K) - 1].frame,
                               func |-> call.func,
                               args |-> [i \in 1..Len(call.args) |->
                                            Seen(call.args[i], R.heap)],
                               kwargs |-> [i \in 1..Len(call.kwargs) |->
                                            keyword(call.kwargs[i].arg,
                                                    Seen(call.kwargs[i].value, R.heap))],
                               result |-> NoneVal,
                               done |-> FALSE])]
                  ELSE [ghost EXCEPT !.owed = <<>>])
    /\ UNCHANGED <<exec_ctx, pending, error, query>>
    /\ Observe

\* statement st of the caller with the result of the call it waited for
PlugStmt(st, v) ==
    CASE st.k \in {"If", "while_test"} -> [st EXCEPT !.test = Plug(@, v)]
      [] st.k = "For" -> [st EXCEPT !.iter = Plug(@, v)]
      [] OTHER -> [st EXCEPT !.value = Plug(@, v)]

\* a function body ends, by return, by its last statement or by an exception:
\* its Python frame is dropped and the caller goes on
FunctionReturn ==
    /\ Running
    /\ pending = <<>>
    /\ Len(interp.frames) > 1
    /\ K = <<>>
    /\ LET n == Len(interp.frames)
           v == IF interp.signal.kind = "return" THEN interp.signal.value ELSE NoneVal
           m == Len(interp.frames[n - 1].k)
       IN  IF interp.signal.kind = "raise"
           THEN /\ interp' = Settle([interp EXCEPT !.frames = Front(@)])
                /\ UNCHANGED ghost
           ELSE /\ interp' =
                      [interp EXCEPT
                          !.frames = [Front(@) EXCEPT ![n - 1].k[m].stmts =
                                          <<PlugStmt(Head(@), v)>> \o Tail(@)],
                          !.signal = NoSignal]
                /\ ghost' = IF Fr.call = 0 THEN ghost
                            ELSE [ghost EXCEPT !.calls[Fr.call].done = TRUE,
                                               !.calls[Fr.call].result =
                                                    Seen(v, interp.heap)]
    /\ UNCHANGED <<exec_ctx, pending, error, query>>
    /\ Observe

\* exec() returns, or the exception of the program leaves it
ProgramEnd ==
    /\ Running
    /\ pending = <<>>
    /\ Len(interp.frames) = 1
    /\ K = <<>>
    /\ interp' = [interp EXCEPT !.status =
                      IF interp.signal.kind = "raise" THEN "raised" ELSE "done"]
    /\ UNCHANGED <<exec_ctx, pending, error, ghost, query>>
    /\ Observe

\* the exception the statement about to run raises, "" when it raises none
Raised ==
    CASE Stmt.k \in TracerCalls /\ ~ReceiverIsCall(Stmt) -> "AttributeError"
      [] Stmt.k = "record_loop_iteration" ->
            IF loop_is_active(exec_ctx) THEN "" ELSE "RuntimeError"
      [] Stmt.k = "pop_execution" ->
            IF exec_ctx.execution_stack # <<>> THEN "" ELSE "IndexError"
      [] Stmt.k \in {"record_loop_execution", "record_function_call"} -> ""
      [] Stmt.k = "record_variable" ->
            IF Lookup(Stmt.var_name, Fr.loc, interp.frames[1].loc) = <<>>
            THEN "NameError" ELSE ""
      [] Stmt.k \in {"With", "FunctionDef", "Break", "Continue", "Raise", "While",
                     "reset_args", "set_func_def_line_num"} -> ""
      [] Stmt.k = "AnnAssign" /\ Stmt.value.k = "None" -> ""
      [] R.exc # "" -> R.exc
      [] ~R.done -> IF ArityOK(interp.funcs[R.call[1].func], R.call[1])
                    THEN "" ELSE "TypeError"
      [] Stmt.k = "For" -> IF R.val.t = "ref" THEN "" ELSE "TypeError"
      [] Stmt.k \in {"Assign", "AugAssign", "AnnAssign"} ->
            LET targets == IF Stmt.k = "Assign" THEN Stmt.targets ELSE <<Stmt.target>>
            IN  StoreAll([interp EXCEPT !.heap = R.heap], targets,
                         [i \in 1..Len(targets) |-> R.val], 1).exc
      [] OTHER -> ""

\* the statement about to run raises an exception
ExecRaises ==
    /\ AtStmt
    /\ Raised # ""
    /\ interp' = Settle(Throw(interp, Raised))
    /\ ghost' = LogPrologue([ghost EXCEPT !.owed = <<>>])
    /\ UNCHANGED <<exec_ctx, pending, error, query>>
    /\ Observe

----------------------------------------------------------------------------
(* The traced programs, and the specification of their execution:           *)
(* StepTracer.transform_code, then execute_transformed_code with a new      *)
(* ExecutionContext.                                                        *)

Num(n) == Constant(IntVal(n))

\* x = 1
SimpleAssignmentCode == <<Assign(<<Name("x")>>, Num(1), 1)>>

\* for i in range(n): x = i * 2
ForLoopCode(n) ==
    <<For(Name("i"), Call(Name("range"), <<Num(n)>>, <<>>, 2),
          <<Assign(<<Name("x")>>, BinOp(Name("i"), "*", Num(2)), 3)>>, 2)>>

\* sum = 0; num = n; while num > 0: sum += num; num -= 1
WhileLoopCode(n) ==
    <<Assign(<<Name("sum")>>, Num(0), 2),
      Assign(<<Name("num")>>, Num(n), 3),
      While(Compare(Name("num"), ">", Num(0)),
            <<AugAssign(Name("sum"), "+", Name("num"), 5),
              AugAssign(Name("num"), "-", Num(1), 6)>>, 4)>>

\* def f(a, b): return a + b
DefAdd == FunctionDef("f", <<"a", "b">>, <<Return(BinOp(Name("a"), "+", Name("b")))>>, 1)
\* def f(a): return a + 1
DefInc == FunctionDef("f", <<"a">>, <<Return(BinOp(Name("a"), "+", Num(1)))>>, 1)
\* def g(b): return b
DefSame == FunctionDef("g", <<"b">>, <<Return(Name("b"))>>, 2)

\* def f(a, b): return a + b / f(3, 4)
FunctionCode ==
    <<DefAdd, Expr(Call(Name("f"), <<Num(3), Num(4)>>, <<>>, 2), 2)>>

\* x = n; if x > 1: y = 1 / else: y = 2
BranchCode(n) ==
    <<Assign(<<Name("x")>>, Num(n), 1),
      If(Compare(Name("x"), ">", Num(1)),
         <<Assign(<<Name("y")>>, Num(1), 3)>>,
         <<Assign(<<Name("y")>>, Num(2), 5)>>, 2)>>

Jumps == <<Break, Continue, Return(Num(9)), Raise("Exception"), Expr(Num(0), 4)>>

\* def h(n): for i in range(n): (if i == 1: <jump>); x = i / return 0 / r = h(n)
EarlyExitCode(n, jump) ==
    <<FunctionDef("h", <<"n">>,
        <<For(Name("i"), Call(Name("range"), <<Name("n")>>, <<>>, 2),
              <<If(Compare(Name("i"), "==", Num(1)), <<jump>>, <<>>, 3),
                Assign(<<Name("x")>>, Name("i"), 5)>>, 2),
          Return(Num(0))>>, 1),
      Assign(<<Name("r")>>, Call(Name("h"), <<Num(n)>>, <<>>, 7), 7)>>

\* def f(a): return a + 1 / def g(b): return f(b) + 1 / y = g(1)
NestedCallCode ==
    <<DefInc,
      FunctionDef("g", <<"b">>,
        <<Return(BinOp(Call(Name("f"), <<Name("b")>>, <<>>, 3), "+", Num(1)))>>, 2),
      Assign(<<Name("y")>>, Call(Name("g"), <<Num(1)>>, <<>>, 4), 4)>>

\* def f(a): return a + 1 / x = f(1) + 2
OperandCallCode ==
    <<DefInc,
      Assign(<<Name("x")>>, BinOp(Call(Name("f"), <<Num(1)>>, <<>>, 2), "+", Num(2)), 2)>>

\* a = [1, 2] / a[0] = 5 / a.append(7)
ListCode ==
    <<Assign(<<Name("a")>>, List(<<Num(1), Num(2)>>), 1),
      Assign(<<Subscript(Name("a"), Num(0))>>, Num(5), 2),
      Expr(Call(Attribute(Name("a"), "append"), <<Num(7)>>, <<>>, 3), 3)>>

\* a = [<an object deepcopy raises on>] / a.append(1)
OpaqueListCode ==
    <<Assign(<<Name("a")>>, List(<<Constant(OpaqueVal)>>), 1),
      Expr(Call(Attribute(Name("a"), "append"), <<Num(1)>>, <<>>, 2), 2)>>

\* def f(a, k): return a + k / def g(b): return b / f(g(1), k=2)
ArgumentCallCode ==
    <<FunctionDef("f", <<"a", "k">>, <<Return(BinOp(Name("a"), "+", Name("k")))>>, 1),
      DefSame,
      Expr(Call(Name("f"), <<Call(Name("g"), <<Num(1)>>, <<>>, 3)>>,
                <<keyword("k", Num(2))>>, 3), 3)>>

\* a, b = [1, 2] / x = y = 1 / z: int = 3 / w: int / x += 1
TargetsCode ==
    <<Assign(<<Tuple(<<Name("a"), Name("b")>>)>>, List(<<Num(1), Num(2)>>), 1),
      Assign(<<Name("x"), Name("y")>>, Num(1), 2),
      AnnAssign(Name("z"), Num(3), 3),
      AnnAssign(Name("w"), NoNode, 4),
      AugAssign(Name("x"), "+", Num(1), 5)>>

\* def g(b): return b / for i in range(n): if g(i) > 0: x = 1
ConditionCallCode(n) ==
    <<DefSame,
      For(Name("i"), Call(Name("range"), <<Num(n)>>, <<>>, 3),
          <<If(Compare(Call(Name("g"), <<Name("i")>>, <<>>, 4), ">", Num(0)),
               <<Assign(<<Name("x")>>, Num(1), 5)>>, <<>>, 4)>>, 3)>>

\* it = [1, 2] / def g(b): return b / y = g(it.pop())
PopArgumentCode ==
    <<Assign(<<Name("it")>>, List(<<Num(1), Num(2)>>), 1),
      DefSame,
      Assign(<<Name("y")>>, Call(Name("g"), <<Call(Attribute(Name("it"), "pop"), <<>>, <<>>, 3)>>, <<>>, 3), 3)>>

\* x = 0 / for i in range(n): x = i + 1 / x = 9
LoopBetweenCode(n) ==
    <<Assign(<<Name("x")>>, Num(0), 1),
      For(Name("i"), Call(Name("range"), <<Num(n)>>, <<>>, 2),
          <<Assign(<<Name("x")>>, BinOp(Name("i"), "+", Num(1)), 3)>>, 2),
      Assign(<<Name("x")>>, Num(9), 4)>>

\* for i in range(n): (x = i / for j in range(2): y = j / x = 7)
NestedLoopCode(n) ==
    <<For(Name("i"), Call(Name("range"), <<Num(n)>>, <<>>, 2),
          <<Assign(<<Name("x")>>, Name("i"), 3),
            For(Name("j"), Call(Name("range"), <<Num(2)>>, <<>>, 4),
                <<Assign(<<Name("y")>>, Name("j"), 5)>>, 4),
            Assign(<<Name("x")>>, Num(7), 6)>>, 2)>>

\* the source programs, by name; n: the number a program is given, j: the jump
\* it makes
Programs(n, j) ==
    [simple |-> SimpleAssignmentCode,
     for_loop |-> ForLoopCode(n),
     while_loop |-> WhileLoopCode(n),
     function |-> FunctionCode,
     branch |-> BranchCode(n),
     early_exit |-> EarlyExitCode(n, Jumps[j]),
     nested_call |-> NestedCallCode,
     operand_call |-> OperandCallCode,
     list |-> ListCode,
     opaque_list |-> OpaqueListCode,
     argument_call |-> ArgumentCallCode,
     targets |-> TargetsCode,
     condition_call |-> ConditionCallCode(n),
     pop_argument |-> PopArgumentCode,
     loop_between |-> LoopBetweenCode(n),
     nested_loop |-> NestedLoopCode(n)]

\* exec(transformed_code, globals) about to run its first statement
Start(p, n, j) ==
    Settle([status |-> "running", prog |-> p, param |-> n,
            frames |-> <<[func |-> "<module>", loc |-> <<>>,
                          k |-> <<SeqEntry(transform_code(Programs(n, j)[p]))>>,
                          call |-> 0, fresh |-> FALSE]>>,
            heap |-> <<>>, funcs |-> <<>>, signal |-> NoSignal, exc |-> ""])

InitProg ==
    /\ exec_ctx = NewExecutionContext
    /\ pending = <<>>
    /\ error = ""
    /\ history = NoHistory
    /\ ghost = NoGhost
    /\ query = NoQuery
    /\ \E p \in DOMAIN Programs(0, 1), n \in 0..MaxIter, j \in 1..Len(Jumps) :
            interp = Start(p, n, j)

NextProg ==
    \/ ExecAssignment
    \/ ExecExpr
    \/ ExecTracerCall
    \/ ExecRecordVariable
    \/ ExecWithCreate
    \/ ExecWithEnter
    \/ ExecWithExit
    \/ ExecIf
    \/ ExecLoopStart
    \/ ExecLoopNext
    \/ ExecFunctionDef
    \/ ExecJump
    \/ UnwindLoop
    \/ CallFunction
    \/ FunctionReturn
    \/ ProgramEnd
    \/ ExecRaises

SpecProg == InitProg /\ [][NextProg]_vars

----------------------------------------------------------------------------
(* The execution of the programs the explicit-pop transformer produces: the *)
(* same source programs, transformed by core_transform_code and run with a  *)
(* new ExecutionContext bound to the name the transformer's statements use. *)

\* exec(transformed_code, globals) about to run its first statement
StartPop(p, n, j) ==
    Settle([status |-> "running", prog |-> p, param |-> n,
            frames |-> <<[func |-> "<module>", loc |-> <<>>,
                          k |-> <<SeqEntry(core_transform_code(Programs(n, j)[p]))>>,
                          call |-> 0, fresh |-> FALSE]>>,
            heap |-> <<>>, funcs |-> <<>>, signal |-> NoSignal, exc |-> ""])

InitPop ==
    /\ exec_ctx = NewExecutionContext
    /\ pending = <<>>
    /\ error = ""
    /\ history = NoHistory
    /\ ghost = NoGhost
    /\ query = NoQuery
    /\ \E p \in DOMAIN Programs(0, 1), n \in 0..MaxIter, j \in 1..Len(Jumps) :
            interp = StartPop(p, n, j)

NextPop ==
    \/ ExecAssignment
    \/ ExecExpr
    \/ ExecTracerCall
    \/ ExecRecordVariable
    \/ ExecContextCall
    \/ ExecIf
    \/ ExecLoopStart
    \/ ExecLoopNext
    \/ ExecFunctionDef
    \/ ExecJump
    \/ UnwindLoop
    \/ CallFunction
    \/ FunctionReturn
    \/ ProgramEnd
    \/ ExecRaises

SpecPop == InitPop /\ [][NextPop]_vars

----------------------------------------------------------------------------
(* The pipeline query engine: core/query_engine.  A row, and the value of a  *)
(* field of a row, is a tagged value [t, v]: an object of the trace (a       *)
(* statement record or a variable snapshot), a JoinResult, a dict, None, a   *)
(* str, an int, a bool, a list, or a value of the traced program.            *)

ObjV(o) == [t |-> "obj", v |-> o]
JoinV(alias_to_items) == [t |-> "join", v |-> alias_to_items]
DictV(entries) == [t |-> "dict", v |-> entries]
NoneV == [t |-> "none", v |-> <<>>]
StrV(x) == [t |-> "str", v |-> x]
IntV(x) == [t |-> "int", v |-> x]
BoolV(x) == [t |-> "bool", v |-> x]
ListV(xs) == [t |-> "list", v |-> xs]
ValV(x) == [t |-> "value", v |-> x]

\* the outcome of a step of the engine: the value it returns, or the exception
\* it raises (exc: the class of the exception, "" when it returns)
Returns(val) == [exc |-> "", val |-> val]
Throws(exc) == [exc |-> exc, val |-> NoneV]

QueryEngineError == "QueryEngineError"
InvalidOperatorError == "InvalidOperatorError"
InvalidFieldError == "InvalidFieldError"
\* the engine's exceptions: QueryEngineError and its subclasses
QueryEngineErrors == {QueryEngineError, InvalidOperatorError, InvalidFieldError}

\* the attributes of the objects of the trace, by class
Attributes(stmt_type) ==
    LET base == {"execution_id", "scope_id", "line_number", "stmt_type", "end_execution_id"}
    IN  CASE stmt_type = "loop" -> base \cup {"loop_type", "num_iterations"}
          [] stmt_type = "loop_iteration" -> base \cup {"iteration_num", "loop_execution_id"}
          [] stmt_type = "function" ->
                base \cup {"func_name", "func_full_name", "func_def_line_num",
                           "arguments", "return_value", "func_call_exec_ctx_id"}
          [] stmt_type = "branch" -> base \cup {"condition_str", "condition_result"}
          [] stmt_type = "variable" ->
                {"var_id", "name", "value", "access_path", "line_number", "scope_id",
                 "execution_id", "stmt_type"}
          [] OTHER -> base

\* hasattr(x, field), for the rows and the fields of the engine
hasattr(x, field) == x.t = "obj" /\ field \in Attributes(x.v.stmt_type)

\* getattr(x, field) of an object that has the attribute
getattr(x, field) ==
    CASE field \in {"stmt_type", "loop_type", "func_name", "func_full_name",
                    "condition_str", "name", "access_path"} -> StrV(x.v[field])
      [] field = "condition_result" -> BoolV(x.v[field])
      [] field \in {"value", "return_value"} -> ValV(x.v[field])
      [] field = "arguments" ->
            DictV([i \in 1..Len(x.v[field]) |->
                    [name |-> x.v[field][i].name, value |-> ValV(x.v[field][i].value)]])
      [] field = "func_def_line_num" /\ x.v[field] = NoInt -> NoneV
      [] OTHER -> IntV(x.v[field])

\* whether the dict has the key, and the value it holds for it
HasKey(d, key) == \E i \in 1..Len(d.v) : d.v[i].name = key
AtKey(d, key) == d.v[CHOOSE i \in 1..Len(d.v) : d.v[i].name = key].value

\* JoinResult.get
JoinResult_get(j, alias) == IF alias \in DOMAIN j.v THEN j.v[alias] ELSE NoneV

RECURSIVE get_field_value(_, _)
\* utils.get_field_value: fields is field_path.split(".")
get_field_value(obj, fields) ==
    IF fields = <<>> THEN Returns(obj)
    ELSE LET field == Head(fields)
         IN  IF obj.t = "join"
             THEN IF JoinResult_get(obj, field).t = "none" THEN Returns(NoneV)
                  ELSE get_field_value(JoinResult_get(obj, field), Tail(fields))
             ELSE IF hasattr(obj, field)
             THEN get_field_value(getattr(obj, field), Tail(fields))
             ELSE IF obj.t = "dict" /\ HasKey(obj, field)
             THEN get_field_value(AtKey(obj, field), Tail(fields))
             ELSE Throws(InvalidFieldError)


\* a WHERE condition: QueryCondition(field, op, value)
QueryCondition(field, op, value) == [field |-> field, op |-> op, value |-> value]

Operators == {"==", "!=", "<", "<=", ">", ">=", "in", "not_in"}

\* the values Python orders: ints and bools (a bool is an int)
Ordered(x) == x.t \in {"int", "bool"}
AsInt(x) == IF x.t = "bool" THEN (IF x.v THEN 1 ELSE 0) ELSE x.v

\* x == y in Python, for the values of the engine
PyEq(x, y) ==
    IF Ordered(x) /\ Ordered(y) THEN AsInt(x) = AsInt(y)
    ELSE x.t = y.t /\ x.v = y.v

\* x in y: y a list of values
PyIn(x, y) == \E i \in 1..Len(y.v) : PyEq(x, y.v[i])

\* op_map[op](x, y): the bool it returns, or the TypeError it raises
op_func(op, x, y) ==
    CASE op = "==" -> Returns(BoolV(PyEq(x, y)))
      [] op = "!=" -> Returns(BoolV(~PyEq(x, y)))
      [] op \in {"<", "<=", ">", ">="} ->
            IF ~(Ordered(x) /\ Ordered(y)) THEN Throws("TypeError")
            ELSE Returns(BoolV(CASE op = "<" -> AsInt(x) < AsInt(y)
                                 [] op = "<=" -> AsInt(x) <= AsInt(y)
                                 [] op = ">" -> AsInt(x) > AsInt(y)
                                 [] OTHER -> AsInt(x) >= AsInt(y)))
      [] op = "in" -> IF y.t = "list" THEN Returns(BoolV(PyIn(x, y))) ELSE Throws("TypeError")
      [] OTHER -> IF y.t = "list" THEN Returns(BoolV(~PyIn(x, y))) ELSE Throws("TypeError")

\* QueryCondition.evaluate: a TypeError counts as False, the engine's own
\* exceptions leave the method
evaluate(cond, obj) ==
    LET typed(r) == IF r.exc = "TypeError" THEN Returns(BoolV(FALSE)) ELSE r
        compare(field_value) ==
            IF field_value.exc # "" THEN field_value
            ELSE IF cond.op \notin Operators THEN Throws(InvalidOperatorError)
            ELSE typed(op_func(cond.op, field_value.val, cond.value))
    IN  compare(get_field_value(obj, cond.field))

RECURSIVE any_all(_, _)
\* every condition has to hold
any_all(conditions, item) ==
    LET then(r) == IF r.exc # "" \/ ~r.val.v THEN r ELSE any_all(Tail(conditions), item)
    IN  IF conditions = <<>> THEN Returns(BoolV(TRUE))
        ELSE then(evaluate(Head(conditions), item))

RECURSIVE any(_, _)
\* any(cond.evaluate(item) for cond in conditions): the conditions are tried in
\* order, as far as the first that holds
any(conditions, item) ==
    LET then(r) == IF r.exc # "" \/ r.val.v THEN r ELSE any(Tail(conditions), item)
    IN  IF conditions = <<>> THEN Returns(BoolV(FALSE))
        ELSE then(evaluate(Head(conditions), item))

\* a list built item by item: each[i] is what item i gives (a list to add, or
\* an exception that ends the building)
Collect(each) ==
    LET bad == {i \in 1..Len(each) : each[i].exc # ""}
        to == [i \in 0..Len(each) |->
                Cardinality(UNION {{<<j, m>> : m \in 1..Len(each[j].val.v)} : j \in 1..i})]
        from(k) == CHOOSE i \in 1..Len(each) : to[i - 1] < k /\ k <= to[i]
    IN  IF bad # {} THEN each[CHOOSE i \in bad : \A j \in bad : i <= j]
        ELSE Returns(ListV([k \in 1..to[Len(each)] |->
                                each[from(k)].val.v[k - to[from(k) - 1]]]))

\* WhereStep.apply
WhereStep_apply(step, items) ==
    LET kept(r, item) ==
            IF r.exc # "" THEN r ELSE Returns(ListV(IF r.val.v THEN <<item>> ELSE <<>>))
    IN  Collect([i \in 1..Len(items) |-> kept(any(step.conditions, items[i]), items[i])])

\* "a.b" of <<"a", "b">>
RECURSIVE dotted(_)
dotted(fields) ==
    IF Len(fields) = 1 THEN fields[1] ELSE fields[1] \o "." \o dotted(Tail(fields))

\* SelectStep.apply: the value of the field, or a dict of the fields
SelectStep_apply(step, items) ==
    LET selected(vs) ==
            IF \E f \in 1..Len(vs) : vs[f].exc # ""
            THEN vs[CHOOSE f \in 1..Len(vs) :
                        /\ vs[f].exc # ""
                        /\ \A g \in 1..(f - 1) : vs[g].exc = ""]
            ELSE IF Len(vs) = 1 THEN Returns(ListV(<<vs[1].val>>))
            ELSE Returns(ListV(<<DictV([f \in 1..Len(vs) |->
                    [name |-> dotted(step.fields[f]), value |-> vs[f].val]])>>))
    IN  Collect([i \in 1..Len(items) |->
                    selected([f \in 1..Len(step.fields) |->
                                get_field_value(items[i], step.fields[f])])])


\* x.<field> of a row: AttributeError when the row has no such attribute
Attr(x, field) == IF hasattr(x, field) THEN Returns(getattr(x, field)) ELSE Throws("AttributeError")

\* x.get(alias), of a JoinResult or of a dict
get(x, alias) ==
    CASE x.t = "join" -> Returns(JoinResult_get(x, alias))
      [] x.t = "dict" -> Returns(IF HasKey(x, alias) THEN AtKey(x, alias) ELSE NoneV)
      [] OTHER -> Throws("AttributeError")

\* the aggregations of the query compiler, as values
CountAgg == [fn |-> "count", join_idx |-> 0]
\* an aggregation of a caller: lambda group: list(group)
ListAgg == [fn |-> "list", join_idx |-> 0]
MinAgg(join_idx) == [fn |-> "min", join_idx |-> join_idx]
MaxAgg(join_idx) == [fn |-> "max", join_idx |-> join_idx]

\* key(x) of _apply_output_type: (execution_id, var_id) of the row, or of the
\* item under alias join_idx when the query has joins
key(x, join_idx) ==
    LET of(item) ==
            IF item.exc # "" THEN item
            ELSE IF join_idx > 0 /\ item.val.t = "none" THEN Returns(<<-1, -1>>)
            ELSE IF ~hasattr(item.val, "execution_id") THEN Throws("AttributeError")
            ELSE Returns(<<item.val.v.execution_id,
                           IF hasattr(item.val, "var_id") THEN item.val.v.var_id ELSE 0>>)
    IN  of(IF join_idx > 0 THEN get(x, ToString(join_idx)) ELSE Returns(x))

\* tuple comparison
KeyLess(a, b) == a[1] < b[1] \/ (a[1] = b[1] /\ a[2] < b[2])

\* min(items, key=key) and max(items, key=key): ValueError on no items; of the
\* items with the least (greatest) key, the first
extreme(fn, items, join_idx) ==
    LET before(a, b) == IF fn = "min" THEN KeyLess(a, b) ELSE KeyLess(b, a)
        pick(keys) ==
            IF items = <<>> THEN Throws("ValueError")
            ELSE IF \E i \in 1..Len(keys) : keys[i].exc # ""
            THEN keys[CHOOSE i \in 1..Len(keys) :
                        /\ keys[i].exc # ""
                        /\ \A j \in 1..(i - 1) : keys[j].exc = ""]
            ELSE Returns(items[CHOOSE i \in 1..Len(items) :
                                /\ \A j \in 1..Len(items) : ~before(keys[j].val, keys[i].val)
                                /\ \A j \in 1..(i - 1) : keys[j].val # keys[i].val])
    IN  pick([i \in 1..Len(items) |-> key(items[i], join_idx)])

\* len([item for item in items if item is not None])
count_not_none(items) == Cardinality({i \in 1..Len(items) : items[i].t # "none"})

\* agg_func(group)
aggregate(agg, items) ==
    CASE agg.fn = "count" -> Returns(IntV(count_not_none(items)))
      [] agg.fn = "list" -> Returns(ListV(items))
      [] OTHER -> extreme(agg.fn, items, agg.join_idx)

TagEq(a, b) == a.t = b.t /\ a.v = b.v
\* the mutation of the lookup of a key that tells a bool from a number
KeyEq_by_type(a, b) == \A i \in 1..Len(a) : TagEq(a[i], b[i])
\* two key tuples are one key of the dict of the groups: they are equal
KeyEq(a, b) == \A i \in 1..Len(a) : PyEq(a[i], b[i])

\* hash(x) returns: a list, a dict and the instances of the dataclasses with
\* eq (VariableSnapshot, JoinResult) are unhashable
hashable(x) ==
    CASE x.t \in {"list", "dict", "join"} -> FALSE
      [] x.t = "obj" -> x.v.stmt_type # "variable"
      [] x.t = "value" -> x.v.t # "list"
      [] OTHER -> TRUE

RECURSIVE distinct_loop(_, _, _, _)
\* the loop of DistinctStep.apply from the state (seen, distinct_result), seen
\* in the order its members were added:
\* scan tells whether the rows that are not hashable are looked up in
\* distinct_result
distinct_loop(items, seen, distinct_result, scan) ==
    IF items = <<>> THEN distinct_result
    ELSE LET item == Head(items)
             found == IF hashable(item) THEN \E s \in 1..Len(seen) : PyEq(item, seen[s])
                      ELSE scan /\ \E r \in 1..Len(distinct_result) :
                                        PyEq(item, distinct_result[r])
         IN  distinct_loop(Tail(items),
                           IF hashable(item) /\ ~found THEN Append(seen, item) ELSE seen,
                           IF found THEN distinct_result ELSE Append(distinct_result, item),
                           scan)

\* the mutation of DistinctStep.apply that adds every row that is not hashable
DistinctStep_apply_no_scan(step, items) ==
    Returns(ListV(distinct_loop(items, <<>>, <<>>, FALSE)))

\* DistinctStep.apply
DistinctStep_apply(step, items) ==
    Returns(ListV(distinct_loop(items, <<>>, <<>>, TRUE)))

\* the items in reverse
Reversed(items) == [i \in 1..Len(items) |-> items[Len(items) + 1 - i]]

\* list.sort on the keys: a comparison of two keys that are not both numbers
\* raises TypeError; the sort is stable
sort(items, keys) ==
    LET place(i) ==
            Cardinality({j \in 1..Len(items) : AsInt(keys[j]) < AsInt(keys[i])})
            + Cardinality({j \in 1..i : AsInt(keys[j]) = AsInt(keys[i])})
    IN  IF Len(items) < 2 THEN Returns(ListV(items))
        ELSE IF \E i \in 1..Len(items) : ~Ordered(keys[i]) THEN Throws("TypeError")
        ELSE Returns(ListV([k \in 1..Len(items) |->
                            items[CHOOSE i \in 1..Len(items) : place(i) = k]]))

\* sorted(items, key=key, reverse=reverse): the key of every item is taken
\* first; with reverse the list is reversed, sorted and reversed again
sorted(items, keys, reverse) ==
    LET back(r) == IF r.exc # "" THEN r ELSE Returns(ListV(Reversed(r.val.v)))
    IN  IF \E i \in 1..Len(keys) : keys[i].exc # ""
        THEN keys[CHOOSE i \in 1..Len(keys) :
                    /\ keys[i].exc # ""
                    /\ \A j \in 1..(i - 1) : keys[j].exc = ""]
        ELSE IF reverse
        THEN back(sort(Reversed(items), Reversed([i \in 1..Len(keys) |-> keys[i].val])))
        ELSE sort(items, [i \in 1..Len(keys) |-> keys[i].val])

\* the mutation of OrderByStep.apply that sorts in ascending order and
\* reverses the result for a descending order
OrderByStep_apply_then_reversed(step, items) ==
    LET back(r) ==
            IF r.exc # "" \/ step.is_ascending THEN r
            ELSE Returns(ListV(Reversed(r.val.v)))
    IN  back(sorted(items,
                    [i \in 1..Len(items) |-> get_field_value(items[i], step.fields[1])],
                    FALSE))

\* OrderByStep.apply
OrderByStep_apply(step, items) ==
    sorted(items, [i \in 1..Len(items) |-> get_field_value(items[i], step.fields[1])],
           ~step.is_ascending)

\* GroupByStep.apply: the groups in the order of their first items
GroupByStep_apply(step, items) ==
    LET fields == step.group_fields
        at(places) == [m \in 1..Len(places) |-> items[places[m]]]
        row(group_key, aggs) ==
            IF \E a \in 1..Len(aggs) : aggs[a].exc # ""
            THEN aggs[CHOOSE a \in 1..Len(aggs) :
                        /\ aggs[a].exc # ""
                        /\ \A b \in 1..(a - 1) : aggs[b].exc = ""]
            ELSE Returns(ListV(<<DictV(
                    [f \in 1..Len(fields) |->
                        [name |-> dotted(fields[f]), value |-> group_key[f]]]
                    \o [a \in 1..Len(aggs) |->
                        [name |-> step.aggregations[a].name, value |-> aggs[a].val]])>>))
        aggregated(group_key, group) ==
            row(group_key, [a \in 1..Len(step.aggregations) |->
                                aggregate(step.aggregations[a].fn, group)])
        \* keys[i]: the key of item i; the groups are in the order of their first items
        grouped(keys) ==
            LET firsts == SelectSeq([i \in 1..Len(items) |-> i],
                                    LAMBDA i : \A j \in 1..(i - 1) : ~KeyEq(keys[j], keys[i]))
            IN  Collect([g \in 1..Len(firsts) |->
                    aggregated(keys[firsts[g]],
                               at(SelectSeq([j \in 1..Len(items) |-> j],
                                            LAMBDA j : KeyEq(keys[j], keys[firsts[g]]))))])
        \* the key of each item, as far as an item with a field that is not
        \* found or with a key that is not hashable
        keyed(values) ==
            LET raised(i) ==
                    IF \E f \in 1..Len(fields) : values[i][f].exc # ""
                    THEN values[i][CHOOSE f \in 1..Len(fields) :
                                    /\ values[i][f].exc # ""
                                    /\ \A g \in 1..(f - 1) : values[i][g].exc = ""].exc
                    ELSE IF \E f \in 1..Len(fields) : ~hashable(values[i][f].val)
                    THEN "TypeError"
                    ELSE ""
            IN  IF \E i \in 1..Len(items) : raised(i) # ""
                THEN Throws(raised(CHOOSE i \in 1..Len(items) :
                                    /\ raised(i) # ""
                                    /\ \A j \in 1..(i - 1) : raised(j) = ""))
                ELSE grouped([i \in 1..Len(items) |->
                                [f \in 1..Len(fields) |-> values[i][f].val]])
    IN  IF step.aggregations = <<>> THEN Throws(QueryEngineError)
        ELSE IF fields = <<>> THEN aggregated(<<>>, items)
        ELSE keyed([i \in 1..Len(items) |->
                        [f \in 1..Len(fields) |-> get_field_value(items[i], fields[f])]])


\* the steps of a pipeline, as records of one shape
NoStep ==
    [op |-> "", conditions |-> <<>>, fields |-> <<>>, group_fields |-> <<>>,
     aggregations |-> <<>>, left_alias |-> "", right_alias |-> "", is_ascending |-> TRUE]
DistinctStep == [NoStep EXCEPT !.op = "distinct"]
\* fields: the one field the rows are ordered by, as a path
OrderByStep(field, is_ascending) ==
    [NoStep EXCEPT !.op = "order_by", !.fields = <<field>>, !.is_ascending = is_ascending]
WhereStep(conditions) == [NoStep EXCEPT !.op = "where", !.conditions = conditions]
SelectStep(fields) == [NoStep EXCEPT !.op = "select", !.fields = fields]
GroupByStep(group_fields, aggregations) ==
    [NoStep EXCEPT !.op = "group_by", !.group_fields = group_fields,
                   !.aggregations = aggregations]
\* conditions: the predicate of the join, as a value (see Conditions)
LeftJoinStep(conditions, left_alias, right_alias) ==
    [NoStep EXCEPT !.op = "left_join", !.conditions = conditions,
                   !.left_alias = left_alias, !.right_alias = right_alias]
InnerJoinStep(conditions, left_alias, right_alias) ==
    [NoStep EXCEPT !.op = "inner_join", !.conditions = conditions,
                   !.left_alias = left_alias, !.right_alias = right_alias]
RightJoinStep(conditions, left_alias, right_alias) ==
    [NoStep EXCEPT !.op = "right_join", !.conditions = conditions,
                   !.left_alias = left_alias, !.right_alias = right_alias]
FullOuterJoinStep(conditions, left_alias, right_alias) ==
    [NoStep EXCEPT !.op = "full_outer_join", !.conditions = conditions,
                   !.left_alias = left_alias, !.right_alias = right_alias]

\* JoinStep.__post_init__: the exception it raises, "" when it raises none
JoinStep_post_init(step) ==
    IF step.left_alias = step.right_alias THEN QueryEngineError ELSE ""

\* JoinStep._create_joined_result
_create_joined_result(step, left_item, right_item) ==
    LET alias_to_items ==
            IF left_item.t = "join" THEN left_item.v ELSE (step.left_alias :> left_item)
    IN  IF step.right_alias \in DOMAIN alias_to_items THEN Throws(QueryEngineError)
        ELSE Returns(JoinV((step.right_alias :> right_item) @@ alias_to_items))

----------------------------------------------------------------------------
(* The target of a question and the query compiler:                         *)
(* question_generator/models.py and query_generator/query_generator.py      *)

NoModifier == "None"

\* TargetElement(type=..., name=..., line_number=..., modifier=...): the model
\* object pydantic builds from the fields
TargetElement(type, name, line_number, modifier) ==
    [type |-> type, name |-> name, line_number |-> line_number, modifier |-> modifier]

\* TargetElement.__post_init__: the error it raises, "" when it returns.  The
\* construction of a pydantic BaseModel does not call a method of this name.
post_init(self) ==
    IF self.modifier = NoModifier THEN ""
    ELSE IF self.modifier = "loop_iterations" /\ self.type # "loop" THEN "ValueError"
    ELSE IF self.modifier \in {"branch_true", "branch_false"} /\ self.type # "branch"
         THEN "ValueError"
    ELSE IF self.modifier \in {"arguments", "return_value"} /\ self.type # "function"
         THEN "ValueError"
    ELSE ""

\* the predicate of the join of the loop_iterations modifier of a first element
IterationsOfLeft == [fn |-> "lambda", join_idx |-> 0, target |-> TargetElement("", NoneV, NoneV, NoModifier)]
\* join_condition, with the target and the join_idx it closes over
JoinCondition(join_idx, target) == [fn |-> "join_condition", join_idx |-> join_idx, target |-> target]

\* lambda left, right: left.stmt_type == "loop" and right.stmt_type ==
\* "loop_iteration" and right.loop_execution_id == left.execution_id
iterations_of_left(left, right) ==
    IF Attr(left, "stmt_type").exc # "" THEN Attr(left, "stmt_type")
    ELSE Returns(BoolV(/\ left.v.stmt_type = "loop"
                       /\ right.v.stmt_type = "loop_iteration"
                       /\ right.v.loop_execution_id = left.v.execution_id))

\* the stmt_type the first conjunct of join_condition asks of the right row
stmt_type_wanted(target) == target.type

\* join_condition(left, right) of _get_target
join_condition(target, join_idx, left, right) ==
    LET right_name ==
            IF hasattr(right, "name") THEN StrV(right.v.name)
            ELSE IF target.type = "branch" /\ hasattr(right, "condition_str")
                 THEN StrV(right.v.condition_str)
            ELSE NoneV
        branch_modifier_check ==
            IF target.type = "branch" /\ hasattr(right, "condition_result")
            THEN CASE target.modifier = "branch_true" -> right.v.condition_result
                   [] target.modifier = "branch_false" -> ~right.v.condition_result
                   [] OTHER -> TRUE
            ELSE TRUE
        \* the attribute the time range check fails to find, "" when it finds all
        missing(left_exec) ==
            IF target.type = "variable"
            THEN (IF hasattr(left_exec, "end_execution_id") THEN "" ELSE "end_execution_id")
            ELSE IF ~hasattr(left_exec, "execution_id") THEN "execution_id"
            ELSE IF left_exec.v.execution_id <= right.v.execution_id
                    /\ ~hasattr(left_exec, "end_execution_id") THEN "end_execution_id"
            ELSE ""
        time_range_check(left_exec) ==
            IF target.type = "variable"
            THEN right.v.execution_id <= left_exec.v.end_execution_id
            ELSE /\ left_exec.v.execution_id <= right.v.execution_id
                 /\ right.v.execution_id <= left_exec.v.end_execution_id
        with(got) ==
            IF got.exc # "" THEN got
            ELSE IF got.val.t = "none" THEN Returns(BoolV(FALSE))
            ELSE IF missing(got.val) # "" THEN Throws("AttributeError")
            ELSE Returns(BoolV(
                    /\ right.v.stmt_type = stmt_type_wanted(target)
                    /\ (target.name.t = "none" \/ TagEq(right_name, target.name))
                    /\ (target.line_number.t = "none"
                            \/ right.v.line_number = target.line_number.v)
                    /\ time_range_check(got.val)
                    /\ (target.modifier # "loop_iterations"
                            \/ (/\ right.v.stmt_type = "loop_iteration"
                                /\ right.v.loop_execution_id = got.val.v.execution_id))
                    /\ branch_modifier_check))
    IN  with(IF join_idx > 0 THEN get(left, ToString(join_idx)) ELSE Returns(left))

\* predicates a caller gives a join, as values:
\* lambda l, r: l["k"] < r["k"], lambda l, r: True and lambda l, r: False
LessK == [fn |-> "less_k", join_idx |-> 0, target |-> TargetElement("", NoneV, NoneV, NoModifier)]
Always == [fn |-> "always", join_idx |-> 0, target |-> TargetElement("", NoneV, NoneV, NoModifier)]
Never == [fn |-> "never", join_idx |-> 0, target |-> TargetElement("", NoneV, NoneV, NoModifier)]

\* x["k"]: of a dict; a JoinResult and None are not subscriptable
subscript(x, k) ==
    IF x.t # "dict" THEN Throws("TypeError")
    ELSE IF ~HasKey(x, k) THEN Throws("KeyError")
    ELSE Returns(AtKey(x, k))

\* l["k"] < r["k"]
less_k(left, right) ==
    LET compared(l, r) ==
            IF l.exc # "" THEN l ELSE IF r.exc # "" THEN r ELSE op_func("<", l.val, r.val)
    IN  compared(subscript(left, "k"), subscript(right, "k"))

\* self.conditions(left_item, right_item) of a join step
Conditions(conditions, left, right) ==
    CASE conditions.fn = "lambda" -> iterations_of_left(left, right)
      [] conditions.fn = "join_condition" ->
            join_condition(conditions.target, conditions.join_idx, left, right)
      [] conditions.fn = "less_k" -> less_k(left, right)
      [] OTHER -> Returns(BoolV(conditions.fn = "always"))

\* LeftJoinStep.apply: the right rows are tried in order for each left row
LeftJoinStep_apply(step, items, other_items) ==
    LET \* cs[j]: the condition on right row j; unmatched: the row of no match
        joined(left_item, cs, unmatched) ==
            LET raised == {j \in 1..Len(cs) : cs[j].exc # ""}
                tried == {j \in 1..Len(cs) : \A k \in raised : j < k}
                matched == SelectSeq([j \in 1..Len(cs) |-> j],
                                     LAMBDA j : j \in tried /\ cs[j].val.v)
            IN  IF matched # <<>> /\ unmatched.exc # "" THEN unmatched
                ELSE IF raised # {} THEN cs[CHOOSE j \in raised : \A k \in raised : j <= k]
                ELSE IF matched = <<>>
                THEN (IF unmatched.exc # "" THEN unmatched
                      ELSE Returns(ListV(<<unmatched.val>>)))
                ELSE Returns(ListV([m \in 1..Len(matched) |->
                        _create_joined_result(step, left_item,
                                              other_items[matched[m]]).val]))
    IN  Collect([i \in 1..Len(items) |->
                    joined(items[i],
                           [j \in 1..Len(other_items) |->
                                Conditions(step.conditions, items[i], other_items[j])],
                           _create_joined_result(step, items[i], NoneV))])

\* one turn of the inner loop of a join: the condition is called and, where it
\* holds, the joined row is created and added
matched_row(cond, joined) ==
    IF cond.exc # "" THEN cond
    ELSE IF ~cond.val.v THEN Returns(ListV(<<>>))
    ELSE IF joined.exc # "" THEN joined
    ELSE Returns(ListV(<<joined.val>>))

\* if not matched: results.append(...), after the inner loop of a join
or_unmatched(rows, unmatched) ==
    IF rows.exc # "" \/ rows.val.v # <<>> THEN rows
    ELSE IF unmatched.exc # "" THEN unmatched
    ELSE Returns(ListV(<<unmatched.val>>))

\* the mutation of InnerJoinStep.apply that loops over the right rows first
InnerJoinStep_apply_right_major(step, items, other_items) ==
    Collect([j \in 1..Len(other_items) |->
        Collect([i \in 1..Len(items) |->
            matched_row(Conditions(step.conditions, items[i], other_items[j]),
                        _create_joined_result(step, items[i], other_items[j]))])])

\* InnerJoinStep.apply
InnerJoinStep_apply(step, items, other_items) ==
    Collect([i \in 1..Len(items) |->
        Collect([j \in 1..Len(other_items) |->
            matched_row(Conditions(step.conditions, items[i], other_items[j]),
                        _create_joined_result(step, items[i], other_items[j]))])])

\* RightJoinStep.apply: the left rows are tried in order for each right row
RightJoinStep_apply(step, items, other_items) ==
    Collect([j \in 1..Len(other_items) |->
        or_unmatched(
            Collect([i \in 1..Len(items) |->
                matched_row(Conditions(step.conditions, items[i], other_items[j]),
                            _create_joined_result(step, items[i], other_items[j]))]),
            _create_joined_result(step, NoneV, other_items[j]))])

\* FullOuterJoinStep.apply: the loop of the left join, then a row for each
\* right row whose index is not in matched_right_indices
FullOuterJoinStep_apply(step, items, other_items) ==
    LET matched_right_indices ==
            {j \in 1..Len(other_items) : \E i \in 1..Len(items) :
                Conditions(step.conditions, items[i], other_items[j]) = Returns(BoolV(TRUE))}
        unmatched == SelectSeq([j \in 1..Len(other_items) |-> j],
                               LAMBDA j : j \notin matched_right_indices)
        rest == Collect([m \in 1..Len(unmatched) |->
                    matched_row(Returns(BoolV(TRUE)),
                                _create_joined_result(step, NoneV,
                                                      other_items[unmatched[m]]))])
        then(lefts) ==
            IF lefts.exc # "" THEN lefts
            ELSE IF rest.exc # "" THEN rest
            ELSE Returns(ListV(lefts.val.v \o rest.val.v))
    IN  then(LeftJoinStep_apply(step, items, other_items))

----------------------------------------------------------------------------
(* Query (query_engine/query_engine.py): the methods that build a pipeline,  *)
(* as operators from the pipeline to the pipeline they leave                 *)

\* Query.where(field=field, op=op, value=value)
where_field(pipeline, field, op, value) ==
    Append(pipeline, WhereStep(<<QueryCondition(field, op, value)>>))

\* Query.where(*conditions): one WhereStep of all the conditions
where(pipeline, conditions) ==
    IF conditions # <<>> THEN Append(pipeline, WhereStep(conditions)) ELSE pipeline

\* Query.select(*fields), given at least one field
select(pipeline, fields) == Append(pipeline, SelectStep(fields))

\* Query.group_by(*fields), given at least one field
group_by(pipeline, fields) == Append(pipeline, GroupByStep(fields, <<>>))

\* dict.update: the value of a name the dict holds is replaced where it is,
\* a new name is added at the end
update(entries, more) ==
    [e \in 1..Len(entries) |->
        IF \E m \in 1..Len(more) : more[m].name = entries[e].name
        THEN more[CHOOSE m \in 1..Len(more) : more[m].name = entries[e].name]
        ELSE entries[e]]
    \o SelectSeq(more, LAMBDA x : \A e \in 1..Len(entries) : entries[e].name # x.name)

\* Query.agg(**aggregations)
agg(pipeline, aggregations) ==
    IF pipeline = <<>> \/ Last(pipeline).op # "group_by"
    THEN Append(pipeline, GroupByStep(<<>>, aggregations))
    ELSE [pipeline EXCEPT ![Len(pipeline)].aggregations = update(@, aggregations)]

\* Query.distinct and Query.order_by
distinct(pipeline) == Append(pipeline, DistinctStep)
order_by(pipeline, field, is_ascending) ==
    Append(pipeline, OrderByStep(field, is_ascending))

\* Query.left_join(other_items, conditions, left_alias, right_alias)
left_join(pipeline, conditions, left_alias, right_alias) ==
    Append(pipeline, LeftJoinStep(conditions, left_alias, right_alias))

\* Query.inner_join, Query.right_join and Query.full_outer_join: the step is
\* constructed and appended
inner_join(pipeline, conditions, left_alias, right_alias) ==
    Append(pipeline, InnerJoinStep(conditions, left_alias, right_alias))
right_join(pipeline, conditions, left_alias, right_alias) ==
    Append(pipeline, RightJoinStep(conditions, left_alias, right_alias))
full_outer_join(pipeline, conditions, left_alias, right_alias) ==
    Append(pipeline, FullOuterJoinStep(conditions, left_alias, right_alias))

\* a query being generated: the pipeline of the Query and the join_idx of the
\* QueryGenerator; NewQuery: the generator as __init__ leaves it
NewQuery == [pipeline |-> <<>>, join_idx |-> 0]


\* QueryGenerator._get_target, for a first element (join_idx == 0)
_get_target_base(q, target) ==
    LET modified(pipeline) ==
            CASE target.modifier \in {"arguments", "return_value"} ->
                    [q EXCEPT !.pipeline = select(pipeline, <<<<target.modifier>>>>)]
              [] target.modifier \in {"branch_true", "branch_false"} ->
                    [q EXCEPT !.pipeline =
                        where_field(pipeline, <<"condition_result">>, "==",
                                    BoolV(target.modifier = "branch_true"))]
              [] target.modifier = "loop_iterations" ->
                    [pipeline |-> left_join(pipeline, IterationsOfLeft,
                                            ToString(q.join_idx), ToString(q.join_idx + 1)),
                     join_idx |-> q.join_idx + 1]
              [] OTHER -> [q EXCEPT !.pipeline = pipeline]
        at_line(pipeline) ==
            IF target.line_number.t = "none" THEN modified(pipeline)
            ELSE modified(where_field(pipeline, <<"line_number">>, "==", target.line_number))
        named(pipeline) ==
            IF target.name.t = "none" THEN at_line(pipeline)
            ELSE IF target.type = "branch"
                 THEN at_line(where_field(pipeline, <<"condition_str">>, "==", target.name))
            ELSE IF target.type = "function"
                 THEN at_line(where_field(pipeline, <<"func_full_name">>, "==", target.name))
            ELSE at_line(where_field(pipeline, <<"name">>, "==", target.name))
    IN  named(where_field(q.pipeline, <<"stmt_type">>, "==", StrV(target.type)))

\* QueryGenerator._get_target
_get_target(q, target) ==
    IF q.join_idx = 0 THEN _get_target_base(q, target)
    ELSE [pipeline |-> left_join(q.pipeline, JoinCondition(q.join_idx, target),
                                 ToString(q.join_idx), ToString(q.join_idx + 1)),
          join_idx |-> q.join_idx + 1]

\* QueryGenerator._apply_output_type
_apply_output_type(q, output_type) ==
    LET group_fields == [alias \in 1..q.join_idx |-> <<ToString(alias - 1), "execution_id">>]
        grouped == IF q.join_idx > 0 THEN group_by(q.pipeline, group_fields) ELSE q.pipeline
    IN  CASE output_type = "count" ->
                [q EXCEPT !.pipeline =
                    select(agg(grouped, <<[name |-> "count", fn |-> CountAgg]>>),
                           <<<<"count">>>>)]
          [] output_type = "first" ->
                [q EXCEPT !.pipeline =
                    select(agg(grouped, <<[name |-> "first_item", fn |-> MinAgg(q.join_idx)]>>),
                           <<<<"first_item">>>>)]
          [] output_type = "last" ->
                [q EXCEPT !.pipeline =
                    select(agg(grouped, <<[name |-> "last_item", fn |-> MaxAgg(q.join_idx)]>>),
                           <<<<"last_item">>>>)]
          [] OTHER -> q

\* QueryGenerator._clean_output
_clean_output(q, target, output_type) ==
    LET prefix == IF q.join_idx > 0 THEN <<ToString(q.join_idx)>> ELSE <<>>
    IN  IF output_type = "count" THEN q
        ELSE IF Len(target) > 0 /\ Last(target).type = "variable"
        THEN IF Last(target).name.t # "none"
             THEN [q EXCEPT !.pipeline = select(@, <<prefix \o <<"value">>>>)]
             ELSE [q EXCEPT !.pipeline =
                        select(@, <<prefix \o <<"name">>, prefix \o <<"value">>>>)]
        ELSE q

\* exec_ctx.execution_trace + exec_ctx.variables, as rows; the var_id of a
\* snapshot is its place in the list of snapshots
Seed ==
    [i \in 1..Len(exec_ctx.execution_trace) |-> ObjV(exec_ctx.execution_trace[i])]
    \o [i \in 1..Len(exec_ctx.variables) |->
            ObjV(("var_id" :> i) @@ exec_ctx.variables[i])]

\* step.apply(result); other_items: the rows the join steps of the pipeline
\* were constructed with
apply(step, items, other_items) ==
    CASE step.op = "where" -> WhereStep_apply(step, items)
      [] step.op = "select" -> SelectStep_apply(step, items)
      [] step.op = "group_by" -> GroupByStep_apply(step, items)
      [] step.op = "distinct" -> DistinctStep_apply(step, items)
      [] step.op = "order_by" -> OrderByStep_apply(step, items)
      [] step.op = "inner_join" -> InnerJoinStep_apply(step, items, other_items)
      [] step.op = "right_join" -> RightJoinStep_apply(step, items, other_items)
      [] step.op = "full_outer_join" -> FullOuterJoinStep_apply(step, items, other_items)
      [] OTHER -> LeftJoinStep_apply(step, items, other_items)

RECURSIVE _get_targets(_, _)
\* for target_element in target: query = self._get_target(query, target_element)
_get_targets(q, target) ==
    IF target = <<>> THEN q
    ELSE _get_targets(_get_target(q, Head(target)), Tail(target))

\* QueryGenerator.generate_query, on the generator self: create_query() gives
\* an empty pipeline, join_idx is the attribute of the generator
generate_query(self, target, output_type) ==
    _clean_output(_apply_output_type(
                    _get_targets([pipeline |-> <<>>, join_idx |-> self.join_idx],
                                 target),
                    output_type),
                  target, output_type)

RECURSIVE _apply_pipeline(_, _, _)
\* Query._apply_pipeline: the steps in turn, as far as one that raises
_apply_pipeline(pipeline, items, other_items) ==
    LET then(r) ==
            IF r.exc # "" THEN r
            ELSE _apply_pipeline(Tail(pipeline), r.val.v, other_items)
    IN  IF pipeline = <<>> THEN Returns(ListV(items))
        ELSE then(apply(Head(pipeline), items, other_items))

----------------------------------------------------------------------------
(* Questions about a traced program: the trace of a program that has ended   *)
(* is queried, with a query the generator compiles from a target or with one *)
(* that is built with where() directly                                       *)

OutputTypes == {"list", "count", "first", "last"}

Loop == TargetElement("loop", NoneV, NoneV, NoModifier)
LoopAt2 == TargetElement("loop", NoneV, IntV(2), NoModifier)
Iterations == TargetElement("loop", NoneV, NoneV, "loop_iterations")
Variable == TargetElement("variable", NoneV, NoneV, NoModifier)
VariableX == TargetElement("variable", StrV("x"), NoneV, NoModifier)
Function == TargetElement("function", NoneV, NoneV, NoModifier)
Arguments == TargetElement("function", StrV("f"), NoneV, "arguments")
ReturnValue == TargetElement("function", NoneV, NoneV, "return_value")
Branch == TargetElement("branch", NoneV, NoneV, NoModifier)
BranchTrue == TargetElement("branch", NoneV, NoneV, "branch_true")
BranchFalse == TargetElement("branch", NoneV, NoneV, "branch_false")
LoopArguments == TargetElement("loop", NoneV, NoneV, "arguments")
VariableIterations == TargetElement("variable", NoneV, NoneV, "loop_iterations")
FunctionBranchTrue == TargetElement("function", NoneV, NoneV, "branch_true")

\* the questions asked: the targets that are asked with every output type, and
\* the targets that are asked as lists
Counted ==
    {<<Loop>>, <<VariableX>>, <<Arguments>>, <<BranchFalse>>, <<Iterations>>,
     <<Iterations, Variable>>, <<Iterations, VariableX>>}
Listed ==
    {<<LoopAt2>>, <<Variable>>, <<Function>>, <<ReturnValue>>, <<Branch>>, <<BranchTrue>>,
     <<LoopAt2, VariableX>>, <<Loop, Branch>>, <<Function, Variable>>,
     <<BranchTrue, Variable>>, <<Iterations, Iterations>>, <<Iterations, BranchTrue>>,
     <<Iterations, VariableX, VariableX>>, <<Iterations, Branch, Branch>>,
     <<LoopArguments>>, <<VariableIterations>>, <<FunctionBranchTrue>>}
Questions == (Counted \X OutputTypes) \cup (Listed \X {"list"})

IsIteration == QueryCondition(<<"stmt_type">>, "==", StrV("loop_iteration"))
IsVariable == QueryCondition(<<"stmt_type">>, "==", StrV("variable"))
FromLine3 == QueryCondition(<<"line_number">>, ">=", IntV(3))
NamedX == QueryCondition(<<"name">>, "==", StrV("x"))
Early == QueryCondition(<<"execution_id">>, "<", IntV(2))
Matches == QueryCondition(<<"stmt_type">>, "~", StrV("loop"))
Below == QueryCondition(<<"stmt_type">>, "<", IntV(3))

\* the arguments of the calls of where()
WhereArguments ==
    {<<FromLine3>>, <<IsIteration, IsVariable>>, <<Early, FromLine3>>,
     <<IsVariable, NamedX>>, <<IsVariable, Matches>>, <<Below, IsVariable>>}

\* the most calls of where() a query is built with
MaxWhere == 2

\* the most calls of generate_query made on one generator
MaxAsked == 2

\* QuestionGenerator: the target elements are constructed and the generator
\* compiles the query; a generator that has answered a question is asked the
\* same question again
GenerateQuery ==
    /\ interp.status = "done"
    /\ \/ query.phase = "idle"
       \/ query.phase = "done" /\ query.target # <<>> /\ query.asked < MaxAsked
    /\ \E question \in Questions :
            LET compiled(q) ==
                    [NoQuery EXCEPT !.phase = "compiled", !.target = question[1],
                                    !.output_type = question[2],
                                    !.join_idx = q.join_idx, !.pipeline = q.pipeline,
                                    !.asked = query.asked + 1,
                                    !.earlier = IF query.asked = 0 THEN <<>>
                                                ELSE Append(query.earlier, query.result)]
            IN  /\ query.asked > 0 => question = <<query.target, query.output_type>>
                /\ query' = compiled(generate_query(query, question[1], question[2]))
    /\ UNCHANGED <<exec_ctx, pending, error, history, interp, ghost>>

\* QueryEngine.create_query().where(...): one more call of where()
Where ==
    /\ interp.status = "done"
    /\ query.phase \in {"idle", "built"}
    /\ Len(query.pipeline) < MaxWhere
    /\ \E conditions \in WhereArguments :
            query' = [query EXCEPT !.phase = "built",
                                   !.pipeline = where(@, conditions)]
    /\ UNCHANGED <<exec_ctx, pending, error, history, interp, ghost>>

\* Query.execute
Execute ==
    /\ query.phase \in {"compiled", "built"}
    /\ LET returned(r) ==
                IF r.exc # ""
                THEN [query EXCEPT !.phase = "failed", !.error = r.exc]
                ELSE [query EXCEPT !.phase = "done", !.result = r.val.v]
       IN  query' = returned(_apply_pipeline(query.pipeline, Seed, Seed))
    /\ UNCHANGED <<exec_ctx, pending, error, history, interp, ghost>>

\* the programs that are traced for a question; the trace of a program that
\* raises is not questioned
Questioned ==
    {"function", "branch", "early_exit", "loop_between", "nested_loop", "operand_call"}
\* the greatest number a questioned program is given
MaxGiven == 3

InitQuery ==
    /\ exec_ctx = NewExecutionContext
    /\ pending = <<>>
    /\ error = ""
    /\ history = NoHistory
    /\ ghost = NoGhost
    /\ query = NoQuery
    /\ \E p \in Questioned, n \in 0..MaxGiven, j \in 1..Len(Jumps) :
            interp = Start(p, n, j)

NextQuery ==
    \/ ExecAssignment
    \/ ExecExpr
    \/ ExecTracerCall
    \/ ExecRecordVariable
    \/ ExecWithCreate
    \/ ExecWithEnter
    \/ ExecWithExit
    \/ ExecIf
    \/ ExecLoopStart
    \/ ExecLoopNext
    \/ ExecFunctionDef
    \/ ExecJump
    \/ UnwindLoop
    \/ CallFunction
    \/ FunctionReturn
    \/ ProgramEnd
    \/ ExecRaises
    \/ GenerateQuery
    \/ Where
    \/ Execute

SpecQuery == InitQuery /\ [][NextQuery]_vars

----------------------------------------------------------------------------
(* Joins of given rows: a query is built of calls of the join methods and   *)
(* its pipeline is applied to the rows                                      *)

\* the most rows of a list a query is given
MaxRows == 2
\* the most joins of a pipeline
MaxJoins == 2

\* the row {"k": k, "i": i}
KRow(k, i) == DictV(<<[name |-> "k", value |-> IntV(k)], [name |-> "i", value |-> IntV(i)]>>)
\* the lists of at most MaxRows rows, each row holding its place under "i"
RowLists ==
    UNION {{[i \in 1..m |-> KRow(ks[i], i)] : ks \in [1..m -> 0..1]} : m \in 0..MaxRows}

\* the conditions and the aliases the join methods are called with
JoinArguments == {LessK, Always, Never} \X {<<"a", "b">>, <<"a", "c">>, <<"a", "a">>}

\* the query after a call of a join method that constructed the step added:
\* the exception of the construction leaves the method and the pipeline is
\* as it was
constructed(added) ==
    IF JoinStep_post_init(Last(added)) # ""
    THEN [query EXCEPT !.phase = "raised", !.error = JoinStep_post_init(Last(added))]
    ELSE [query EXCEPT !.phase = "built", !.pipeline = added]

\* Query.inner_join
InnerJoin ==
    /\ query.phase \in {"given", "built"}
    /\ Len(query.pipeline) < MaxJoins
    /\ \E arguments \in JoinArguments :
            query' = constructed(inner_join(query.pipeline, arguments[1],
                                            arguments[2][1], arguments[2][2]))
    /\ UNCHANGED <<exec_ctx, pending, error, history, interp, ghost>>

\* Query.left_join
LeftJoin ==
    /\ query.phase \in {"given", "built"}
    /\ Len(query.pipeline) < MaxJoins
    /\ \E arguments \in JoinArguments :
            query' = constructed(left_join(query.pipeline, arguments[1],
                                           arguments[2][1], arguments[2][2]))
    /\ UNCHANGED <<exec_ctx, pending, error, history, interp, ghost>>

\* Query.right_join
RightJoin ==
    /\ query.phase \in {"given", "built"}
    /\ Len(query.pipeline) < MaxJoins
    /\ \E arguments \in JoinArguments :
            query' = constructed(right_join(query.pipeline, arguments[1],
                                            arguments[2][1], arguments[2][2]))
    /\ UNCHANGED <<exec_ctx, pending, error, history, interp, ghost>>

\* Query.full_outer_join
FullOuterJoin ==
    /\ query.phase \in {"given", "built"}
    /\ Len(query.pipeline) < MaxJoins
    /\ \E arguments \in JoinArguments :
            query' = constructed(full_outer_join(query.pipeline, arguments[1],
                                                 arguments[2][1], arguments[2][2]))
    /\ UNCHANGED <<exec_ctx, pending, error, history, interp, ghost>>

\* Query._apply_pipeline(items)
ApplyPipeline ==
    /\ query.phase = "built"
    /\ LET returned(r) ==
                IF r.exc # ""
                THEN [query EXCEPT !.phase = "failed", !.error = r.exc]
                ELSE [query EXCEPT !.phase = "done", !.result = r.val.v]
       IN  query' = returned(_apply_pipeline(query.pipeline, query.items,
                                             query.other_items))
    /\ UNCHANGED <<exec_ctx, pending, error, history, interp, ghost>>

InitJoins ==
    /\ exec_ctx = NewExecutionContext
    /\ pending = <<>>
    /\ error = ""
    /\ history = NoHistory
    /\ interp = NoProgram
    /\ ghost = NoGhost
    /\ \E items \in RowLists, other_items \in RowLists :
            query = [NoQuery EXCEPT !.phase = "given", !.items = items,
                                    !.other_items = other_items]

NextJoins ==
    \/ InnerJoin
    \/ LeftJoin
    \/ RightJoin
    \/ FullOuterJoin
    \/ ApplyPipeline

SpecJoins == InitJoins /\ [][NextJoins]_vars

----------------------------------------------------------------------------
(* Steps on given rows: a query is built of calls of distinct, order_by,     *)
(* group_by and agg, and its pipeline is applied to the rows, once or more   *)

\* the most rows a query of these steps is given
MaxItems == 3
\* the most steps of its pipeline
MaxSteps == 2
\* the most times the pipeline is applied
MaxRuns == 2

\* the row {"k": key, "i": i}
KeyRow(k, i) == DictV(<<[name |-> "k", value |-> k], [name |-> "i", value |-> IntV(i)]>>)
\* a variable snapshot, as a row
SnapshotRow == ObjV(("var_id" :> 1) @@ VariableSnapshot("x", IntVal(1), "x", 1, 0, 0))
\* rows with the keys 0, 1, True and {} (1 == True; a dict is not hashable),
\* and rows that are a number, a bool, a list and a snapshot
StepRows ==
    <<KeyRow(IntV(0), 0), KeyRow(IntV(1), 1), KeyRow(BoolV(TRUE), 0), KeyRow(DictV(<<>>), 0),
      IntV(1), BoolV(TRUE), ListV(<<IntV(1)>>), SnapshotRow>>
ItemLists ==
    UNION {{[i \in 1..m |-> StepRows[r[i]]] : r \in [1..m -> 1..Len(StepRows)]} :
            m \in 0..MaxItems}

\* the arguments the methods are called with
OrderByArguments == {<<"k">>} \X BOOLEAN
GroupByArguments == {<<>>, <<<<"k">>>>}
AggArguments == {<<[name |-> "n", fn |-> CountAgg]>>, <<[name |-> "rows", fn |-> ListAgg]>>}

\* Query.distinct
Distinct ==
    /\ query.phase \in {"given", "built"}
    /\ Len(query.pipeline) < MaxSteps
    /\ query' = [query EXCEPT !.phase = "built", !.pipeline = distinct(@)]
    /\ UNCHANGED <<exec_ctx, pending, error, history, interp, ghost>>

\* Query.order_by
OrderBy ==
    /\ query.phase \in {"given", "built"}
    /\ Len(query.pipeline) < MaxSteps
    /\ \E arguments \in OrderByArguments :
            query' = [query EXCEPT !.phase = "built",
                                   !.pipeline = order_by(@, arguments[1], arguments[2])]
    /\ UNCHANGED <<exec_ctx, pending, error, history, interp, ghost>>

\* Query.group_by: it raises when it is given no field
GroupBy ==
    /\ query.phase \in {"given", "built"}
    /\ Len(query.pipeline) < MaxSteps
    /\ \E fields \in GroupByArguments :
            query' = IF fields = <<>>
                     THEN [query EXCEPT !.phase = "raised", !.error = QueryEngineError]
                     ELSE [query EXCEPT !.phase = "built", !.pipeline = group_by(@, fields)]
    /\ UNCHANGED <<exec_ctx, pending, error, history, interp, ghost>>

\* Query.agg: the aggregations go to the group_by that ends the pipeline, or
\* to a new step
Agg ==
    /\ query.phase \in {"given", "built"}
    /\ Len(agg(query.pipeline, <<>>)) <= MaxSteps
    /\ \E aggregations \in AggArguments :
            query' = [query EXCEPT !.phase = "built", !.pipeline = agg(@, aggregations)]
    /\ UNCHANGED <<exec_ctx, pending, error, history, interp, ghost>>

\* Query._apply_pipeline(items), on a query that has been applied
ApplyAgain ==
    /\ query.phase = "done"
    /\ Len(query.earlier) + 1 < MaxRuns
    /\ LET returned(r) ==
                IF r.exc # ""
                THEN [query EXCEPT !.phase = "failed", !.error = r.exc,
                                   !.earlier = Append(@, query.result)]
                ELSE [query EXCEPT !.result = r.val.v,
                                   !.earlier = Append(@, query.result)]
       IN  query' = returned(_apply_pipeline(query.pipeline, query.items,
                                             query.other_items))
    /\ UNCHANGED <<exec_ctx, pending, error, history, interp, ghost>>

InitSteps ==
    /\ exec_ctx = NewExecutionContext
    /\ pending = <<>>
    /\ error = ""
    /\ history = NoHistory
    /\ interp = NoProgram
    /\ ghost = NoGhost
    /\ \E items \in ItemLists : query = [NoQuery EXCEPT !.phase = "given", !.items = items]

NextSteps ==
    \/ Distinct
    \/ OrderBy
    \/ GroupBy
    \/ Agg
    \/ ApplyPipeline
    \/ ApplyAgain

SpecSteps == InitSteps /\ [][NextSteps]_vars

----------------------------------------------------------------------------
(* Properties of the execution context *)

Trace == exec_ctx.execution_trace
Closed(i) == Trace[i].end_execution_id # NoEnd
Range(q) == {q[i] : i \in 1..Len(q)}

\* record e was pushed while frame f was on the execution stack
OpenedInside(e, f) == f \in Range(history.opened_in[e])

\* C1: every closed frame f bounds the ids of the records opened while it was on
\* the execution stack: f.execution_id <= e.execution_id <= f.end_execution_id,
\* at any nesting depth.
C1_NestedIdsWithinFrame ==
    \A f \in 1..Len(Trace), e \in 1..Len(Trace) :
        (Closed(f) /\ OpenedInside(e, f)) =>
            /\ Trace[f].execution_id <= Trace[e].execution_id
            /\ Trace[e].execution_id <= Trace[f].end_execution_id

\* a closed frame that held a frame that held a frame
C1_Witness ==
    \E f \in 1..Len(Trace), e \in 1..Len(Trace), d \in 1..Len(Trace) :
        /\ Closed(f) /\ Closed(e)
        /\ OpenedInside(e, f) /\ OpenedInside(d, e) /\ OpenedInside(d, f)
        /\ Trace[d].execution_id = Trace[f].end_execution_id

\* C3: the execution ids of the trace are strictly increasing in list order, and
\* every id is at least 1.
C3_IdsStrictlyIncreasing ==
    /\ \A i \in 1..Len(Trace) : Trace[i].execution_id >= 1
    /\ \A i \in 1..Len(Trace) - 1 :
            Trace[i].execution_id < Trace[i + 1].execution_id

\* a trace of a loop, an iteration of it and a record made after both were closed
C3_Witness ==
    /\ Len(Trace) >= 3
    /\ Trace[1].stmt_type = "loop"
    /\ Trace[2].stmt_type = "loop_iteration"
    /\ Closed(1)
    /\ ~OpenedInside(3, 1)

\* C4 as stated: every closed frame has execution_id < end_execution_id.
C4_StrictForEveryFrame ==
    \A f \in 1..Len(Trace) :
        Closed(f) => Trace[f].execution_id < Trace[f].end_execution_id

\* C4 as amended: a closed frame has execution_id <= end_execution_id, and the
\* two differ exactly when an execution was opened while the frame was open.
C4_StrictIffNested ==
    \A f \in 1..Len(Trace) :
        Closed(f) =>
            /\ Trace[f].execution_id <= Trace[f].end_execution_id
            /\ (Trace[f].execution_id < Trace[f].end_execution_id
                    <=> \E e \in 1..Len(Trace) : OpenedInside(e, f))

\* a closed frame with nothing opened in it, and a closed frame with something
C4_Witness ==
    \E f \in 1..Len(Trace), g \in 1..Len(Trace) :
        /\ Closed(f) /\ Closed(g)
        /\ Trace[f].execution_id = Trace[f].end_execution_id
        /\ Trace[g].execution_id < Trace[g].end_execution_id

\* the places of the FunctionCall frames on the execution stack, in stack order
FunctionFrames ==
    SelectSeq(exec_ctx.execution_stack, LAMBDA i : Trace[i].stmt_type = "function")

\* C6: the scope stack is the global scope followed by one function scope per
\* FunctionCall frame on the execution stack, in the same order, each a fresh scope
\* whose parent is the scope current at the call; and no snapshot carries the id
\* of a scope whose frame had been popped when the snapshot was recorded.
C6_ScopeLivesWithFrame ==
    /\ Len(exec_ctx.scope_stack) = Len(FunctionFrames) + 1
    /\ exec_ctx.scope_stack[1] = 0
    /\ \A i \in 1..Len(FunctionFrames) :
            LET scope == exec_ctx.scopes[exec_ctx.scope_stack[i + 1] + 1]
            IN  /\ scope.scope_type = "function"
                /\ scope.scope_id = exec_ctx.scope_stack[i + 1]
                /\ scope.scope_id > exec_ctx.scope_stack[i]
                /\ scope.parent = exec_ctx.scope_stack[i]
                /\ scope.parent = Trace[FunctionFrames[i]].scope_id
    /\ \A i \in 1..Len(exec_ctx.scopes) : exec_ctx.scopes[i].scope_id = i - 1
    /\ \A i \in 1..Len(exec_ctx.variables) :
            /\ exec_ctx.variables[i].scope_id = Last(history.recorded_in[i].scope_stack)
            /\ exec_ctx.variables[i].scope_id \in Range(history.recorded_in[i].scope_stack)

\* a snapshot recorded in the scope of a call made after an earlier call was closed
C6_Witness ==
    \E i \in 1..Len(exec_ctx.variables) :
        LET at == history.recorded_in[i]
        IN  /\ at.scope_counter >= 2
            /\ Len(at.scope_stack) = 2
            /\ exec_ctx.variables[i].scope_id = at.scope_counter
            /\ Len(exec_ctx.scope_stack) = 1

----------------------------------------------------------------------------
(* Properties of the execution of instrumented programs *)

Ended == interp.status \in {"done", "raised"}

\* C2: every frame a with block opened is closed when control leaves the block,
\* by its end, break, continue, return or an exception; on leaving a block the
\* execution stack and the scope stack are what they were on reaching it; and
\* when the program has ended, normally or by an exception, the execution stack
\* is empty, the scope stack holds only the global scope and every frame of the
\* trace is closed.
C2_FramesClosedOnEveryPath ==
    /\ ghost.left # <<>> =>
            /\ Closed(ghost.left[1].frame)
            /\ ghost.left[1].after = ghost.left[1].entered
    /\ Ended =>
            /\ exec_ctx.execution_stack = <<>>
            /\ exec_ctx.scope_stack = <<0>>
            /\ \A i \in 1..Len(Trace) : Closed(i)

\* a program ended by an exception that left a branch, an iteration, a loop and
\* a call
C2_Witness ==
    /\ interp.status = "raised"
    /\ ghost.left # <<>>
    /\ ghost.left[1].how = "raise"
    /\ Trace[ghost.left[1].frame].stmt_type = "function"
    /\ \E i \in 1..Len(Trace) : Trace[i].stmt_type = "branch" /\ Trace[i].condition_result
    /\ exec_ctx.execution_stack = <<>>

\* the places in the trace of the iterations of the loop at place i
IterationsOf(i) ==
    {j \in 1..Len(Trace) :
        /\ Trace[j].stmt_type = "loop_iteration"
        /\ Trace[j].loop_execution_id = Trace[i].execution_id}

\* C5: whenever no created frame waits to be pushed, num_iterations of every
\* LoopExecution is the number of LoopIteration records of that loop; each loop
\* statement executed has a LoopExecution of its own, whose num_iterations, once
\* the loop is closed, is the number of passes the body made (n for
\* `for i in range(n)`, n for the while loop that counts down from n).
C5_IterationsCounted ==
    pending = <<>> =>
        /\ \A i \in 1..Len(Trace) :
                Trace[i].stmt_type = "loop" =>
                    Trace[i].num_iterations = Cardinality(IterationsOf(i))
        /\ \A g \in 1..Len(ghost.loops) :
                LET i == ghost.loops[g].frame
                IN  /\ i # 0
                    /\ Trace[i].stmt_type = "loop"
                    /\ Closed(i) => Trace[i].num_iterations = ghost.loops[g].passes
                    /\ \A h \in 1..Len(ghost.loops) :
                            ghost.loops[h].frame = i => h = g
        /\ (Ended /\ interp.prog \in {"for_loop", "while_loop"}) =>
                /\ Len(ghost.loops) = 1
                /\ Cardinality({i \in 1..Len(Trace) : Trace[i].stmt_type = "loop"}) = 1
                /\ Trace[1].num_iterations = interp.param

\* the while loop that counts down from 5 has ended
C5_Witness ==
    /\ interp.status = "done"
    /\ interp.prog = "while_loop"
    /\ interp.param = 5
    /\ Trace[1].num_iterations = 5
    /\ Cardinality(IterationsOf(1)) = 5

\* the id of the frame on top of the execution stack, 0 when there is none
TopId ==
    IF exec_ctx.execution_stack = <<>> THEN 0
    ELSE Trace[Last(exec_ctx.execution_stack)].execution_id

C8_SnapshotsAreCopies ==
    \A i \in 1..Len(exec_ctx.variables) :
        ghost.seen[i].copyable =>
            Seen(exec_ctx.variables[i].value, interp.heap) = ghost.seen[i].content

\* a snapshot of a list that was changed after the snapshot was recorded
C8_Witness ==
    \E i \in 1..Len(exec_ctx.variables) :
        /\ ghost.seen[i].copyable
        /\ ghost.seen[i].held.t = "ref"
        /\ Seen(ghost.seen[i].held, interp.heap) # ghost.seen[i].content
        /\ exec_ctx.variables[i].value = ghost.seen[i].content

\* the arguments of a call as expand_call records them at the call site
CallSiteArguments(call) ==
    [i \in 1..Len(call.args) |->
        [name |-> "_arg" \o ToString(i - 1), value |-> call.args[i]]]
    \o [i \in 1..Len(call.kwargs) |->
        [name |-> call.kwargs[i].arg, value |-> call.kwargs[i].value]]

\* the traced calls to functions of the program that have returned and whose
\* frame is closed
CompletedCalls ==
    {c \in 1..Len(ghost.calls) : ghost.calls[c].done /\ Closed(ghost.calls[c].frame)}

\* the last prologue that ran with the frame at place i on top of the stack
LastPrologueOn(i) ==
    LET on == {p \in 1..Len(ghost.prologues) : ghost.prologues[p].top = i}
    IN  ghost.prologues[CHOOSE p \in on : \A q \in on : q <= p]

\* C9 as stated: the record of a completed traced call to a function of the
\* program has the names of the call site, the arguments of the call site under
\* the keys _arg0, _arg1, ... and the keywords, and the result of the call.
C9_ArgumentsAreCallSiteMapping ==
    \A c \in CompletedCalls :
        LET call == ghost.calls[c]
            e == Trace[call.frame]
        IN  /\ e.func_name = call.func
            /\ e.func_full_name = call.func
            /\ e.arguments = CallSiteArguments(call)
            /\ e.return_value = call.result

\* C9 as amended: the record has the names of the call site and the result of
\* the call; its arguments are the parameters, by name and in order, of the
\* function whose prologue ran last with the record on top of the stack (the
\* function called, unless its body reached another function of the program by a
\* call that was not hoisted), the entries of the call site having been dropped
\* by reset_args.  f(3, 4) leaves {"a": 3, "b": 4} and 7.
C9_ArgumentsAreParameters ==
    /\ \A c \in CompletedCalls :
            LET call == ghost.calls[c]
                e == Trace[call.frame]
            IN  /\ e.func_name = call.func
                /\ e.func_full_name = call.func
                /\ \E p \in 1..Len(ghost.prologues) : ghost.prologues[p].top = call.frame
                /\ e.arguments = LastPrologueOn(call.frame).params
                /\ e.return_value = call.result
    /\ (Ended /\ interp.prog = "function") =>
            /\ Trace[1].arguments = <<[name |-> "a", value |-> IntVal(3)],
                                      [name |-> "b", value |-> IntVal(4)]>>
            /\ Trace[1].return_value = IntVal(7)

\* f(3, 4) has returned and its record is closed
C9_Witness ==
    /\ interp.status = "done"
    /\ interp.prog = "function"
    /\ CompletedCalls = {1}
    /\ ghost.calls[1].args = <<IntVal(3), IntVal(4)>>
    /\ Trace[1].func_name = "f"
    /\ Trace[1].return_value = IntVal(7)

\* C10 as stated: whenever the prologue of a function body runs, the frame on
\* top of the execution stack is the FunctionCall that was opened for that call
\* of the function.
C10_PrologueRunsOnOwnFrame ==
    \A p \in 1..Len(ghost.prologues) :
        /\ ghost.prologues[p].own # 0
        /\ ghost.prologues[p].top = ghost.prologues[p].own


\* the global variables of the program
Globals == interp.frames[1].loc

\* C11 as stated: the instrumented program evaluates each argument of a traced
\* call once, so it ends as the original program does.  `y = g(it.pop())` with
\* it = [1, 2] takes one item off the list (the original ends with it = [1] and
\* y = 2), and `f(g(1), k=2)` runs the body of g once.
C11_ArgumentsEvaluatedOnce ==
    /\ (Ended /\ interp.prog = "pop_argument") =>
            /\ interp.status = "done"
            /\ Seen(Globals["it"], interp.heap) = ListVal(<<IntVal(1)>>)
            /\ Globals["y"] = IntVal(2)
    /\ (Ended /\ interp.prog = "argument_call") =>
            Len(SelectSeq(ghost.prologues, LAMBDA e : e.func = "g")) = 1

----------------------------------------------------------------------------
(* Properties of the execution context: errors *)

\* the frame on top of the execution stack is a LoopExecution
TopIsLoop ==
    /\ exec_ctx.execution_stack # <<>>
    /\ Trace[Last(exec_ctx.execution_stack)].stmt_type = "loop"

\* C12: a loop iteration is recorded only under a LoopExecution; with another
\* kind of frame on top of the execution stack, or none, recording an iteration
\* fails with "No active loop execution ..." and leaves the context as it was:
\* the counter, the trace, the snapshots, both stacks and every num_iterations.
C12_IterationNeedsLoop ==
    [][/\ error' = NoActiveLoop => (~TopIsLoop /\ exec_ctx' = exec_ctx)
       /\ (/\ Len(exec_ctx'.execution_trace) > Len(Trace)
           /\ Last(exec_ctx'.execution_trace).stmt_type = "loop_iteration") => TopIsLoop
       /\ (\E i \in 1..Len(Trace) :
                exec_ctx'.execution_trace[i].num_iterations # Trace[i].num_iterations)
            => TopIsLoop]_vars

\* the error was raised with a frame that is not a loop on top of the stack,
\* after an id was issued and a record appended
C12_Witness ==
    /\ error = NoActiveLoop
    /\ exec_ctx.execution_stack # <<>>
    /\ Trace[Last(exec_ctx.execution_stack)].stmt_type \in {"function", "branch", "loop_iteration"}
    /\ exec_ctx.execution_counter >= 2


----------------------------------------------------------------------------
(* Properties of the questions *)

\* a query of the generator has been compiled
Generated ==
    /\ query.phase \in {"compiled", "done", "failed"}
    /\ query.target # <<>>
    /\ query.asked = 1
\* the query of the generator for the target and the output type has returned
Answered(target, output_type) ==
    /\ query.phase = "done"
    /\ query.asked = 1
    /\ query.target = target
    /\ query.output_type = output_type

\* the places in the trace of the frames of the type
Frames(stmt_type) ==
    SelectSeq([i \in 1..Len(Trace) |-> i], LAMBDA i : Trace[i].stmt_type = stmt_type)
\* the snapshots of the variable, in the order they were recorded
Snapshots(name) == SelectSeq(exec_ctx.variables, LAMBDA s : s.name = name)
\* the snapshot was recorded while frame f was open
RecordedWithin(s, f) ==
    /\ Trace[f].execution_id <= s.execution_id
    /\ s.execution_id <= Trace[f].end_execution_id

\* C13: the query compiled for a target of two or more elements has one
\* left-join step with the join predicate of an element for every element
\* after the first, whatever the modifier of the first element.
C13_JoinForEachLaterElement ==
    Generated =>
        Len(SelectSeq(query.pipeline,
                      LAMBDA step : step.op = "left_join"
                                        /\ step.conditions.fn = "join_condition"))
            = Len(query.target) - 1

\* C14: for the target [{loop, line 2}, {variable x}] and output type list, the
\* result is the values of the snapshots of x recorded while the frame of the
\* loop was open, in the order of the trace, and no value recorded before the
\* loop was opened or after it was closed.
C14_ValuesWithinLoop ==
    \A f \in 1..Len(Trace) :
        (/\ Answered(<<LoopAt2, VariableX>>, "list")
         /\ Frames("loop") = <<f>>
         /\ Trace[f].line_number = 2) =>
            query.result =
                [k \in 1..Len(SelectSeq(Snapshots("x"), LAMBDA s : RecordedWithin(s, f))) |->
                    ValV(SelectSeq(Snapshots("x"), LAMBDA s : RecordedWithin(s, f))[k].value)]

\* C15: with output type count, an unjoined target gives the one number of the
\* rows selected (0 when none is), and the loop_iterations modifier gives, for
\* each loop frame, the number of its iterations: 0 for a loop of no iteration.
C15_Counts ==
    /\ Answered(<<Loop>>, "count") => query.result = <<IntV(Len(Frames("loop")))>>
    /\ Answered(<<VariableX>>, "count") => query.result = <<IntV(Len(Snapshots("x")))>>
    /\ Answered(<<BranchFalse>>, "count") =>
            query.result =
                <<IntV(Len(SelectSeq(Frames("branch"),
                                     LAMBDA i : ~Trace[i].condition_result)))>>
    /\ Answered(<<Iterations>>, "count") =>
            query.result =
                [k \in 1..Len(Frames("loop")) |-> IntV(Trace[Frames("loop")[k]].num_iterations)]

\* C16: for a target that ends in a variable, output type last gives the value
\* of the selected snapshot that was recorded last and output type first the
\* value of the one recorded first, also when a snapshot is recorded in an
\* outer frame after a nested frame has closed.
C16_FirstAndLast ==
    /\ Answered(<<VariableX>>, "last") => query.result = <<ValV(Last(Snapshots("x")).value)>>
    /\ Answered(<<VariableX>>, "first") => query.result = <<ValV(Head(Snapshots("x")).value)>>

\* C17: for [{loop, loop_iterations}, {loop, loop_iterations}] the join of the
\* second element accepts the loop_iteration rows: an iteration of a loop that
\* ran inside an iteration of another loop is in the result, under alias 2.
C17_InnerIterationsMatched ==
    \A outer, inner \in 1..Len(Trace) :
        (/\ Answered(<<Iterations, Iterations>>, "list")
         /\ Trace[outer].stmt_type = "loop_iteration"
         /\ Trace[inner].stmt_type = "loop_iteration"
         /\ Trace[outer].execution_id < Trace[inner].loop_execution_id
         /\ Trace[inner].execution_id <= Trace[outer].end_execution_id) =>
            \E r \in 1..Len(query.result) :
                /\ TagEq(query.result[r].v["1"], ObjV(Trace[outer]))
                /\ TagEq(query.result[r].v["2"], ObjV(Trace[inner]))

\* C18: a target element whose modifier does not go with its type is rejected
\* when it is constructed: no query is compiled or executed for it.
C18_IncompatibleRejected ==
    Generated => \A e \in 1..Len(query.target) : post_init(query.target[e]) = ""

\* C19: every failure of the execution of a compiled pipeline is a
\* QueryEngineError or one of its subclasses.
C19_FailuresAreQueryEngineErrors ==
    query.phase = "failed" => query.error \in QueryEngineErrors

\* the condition holds on the row
Holds(cond, row) == evaluate(cond, row) = Returns(BoolV(TRUE))
\* a query built of calls of where() has returned
Filtered ==
    /\ query.phase = "done"
    /\ query.target = <<>>
    /\ \A k \in 1..Len(query.pipeline) : query.pipeline[k].op = "where"

\* C20: where(c1, ..., cn) keeps a row iff at least one ci holds on it, and the
\* where steps of a query are conjunctive: a row is kept iff some condition of
\* every step holds on it; the result is the rows kept, in the order of the
\* input, none twice and none altered.
C20_WhereKeeps ==
    Filtered =>
        query.result =
            SelectSeq(Seed, LAMBDA row :
                \A k \in 1..Len(query.pipeline) :
                    \E c \in 1..Len(query.pipeline[k].conditions) :
                        Holds(query.pipeline[k].conditions[c], row))

\* C20, its case: two where steps have run, a row is kept by the second
\* condition of a step whose first condition does not hold on it, and a row is
\* dropped by the second step alone.
C20_Witness ==
    /\ Filtered
    /\ Len(query.pipeline) = 2
    /\ query.result # <<>>
    /\ \E i \in 1..Len(query.result) :
            /\ Len(query.pipeline[1].conditions) = 2
            /\ ~Holds(query.pipeline[1].conditions[1], query.result[i])
            /\ Holds(query.pipeline[1].conditions[2], query.result[i])
    /\ \E j \in 1..Len(Seed) :
            /\ \E c \in 1..Len(query.pipeline[1].conditions) :
                    Holds(query.pipeline[1].conditions[c], Seed[j])
            /\ \A c \in 1..Len(query.pipeline[2].conditions) :
                    ~Holds(query.pipeline[2].conditions[c], Seed[j])

\* the query is built of calls of where() and has been executed
Executed == query.target = <<>> /\ query.phase \in {"done", "failed"}
\* the field path of the condition resolves on the row
Resolves(cond, row) == get_field_value(row, cond.field).exc = ""
\* the field path resolves on the row and the comparison gives true
Satisfied(cond, row) ==
    /\ Resolves(cond, row)
    /\ op_func(cond.op, get_field_value(row, cond.field).val, cond.value)
            = Returns(BoolV(TRUE))
\* every condition of the query has one of the eight operators
KnownOperators ==
    \A k \in 1..Len(query.pipeline) :
        \A c \in 1..Len(query.pipeline[k].conditions) :
            query.pipeline[k].conditions[c].op \in Operators

\* C21: in a where step over the rows of the trace, a condition whose field
\* path does not resolve on a row, or whose comparison is a type error, is
\* false for the row and does not raise: the step completes, and keeps the row
\* iff another condition of the step holds on it.
C21_UnresolvedIsFalse ==
    (Executed /\ KnownOperators) =>
        /\ query.phase = "done"
        /\ query.result =
                SelectSeq(Seed, LAMBDA row :
                    \A k \in 1..Len(query.pipeline) :
                        \E c \in 1..Len(query.pipeline[k].conditions) :
                            Satisfied(query.pipeline[k].conditions[c], row))

\* the rows step k of the query is given: what the steps before it return
Given(k) == _apply_pipeline(SubSeq(query.pipeline, 1, k - 1), Seed, Seed)

PlaceOf(row) == CHOOSE i \in 1..Len(Trace) : Trace[i].execution_id = row.v.execution_id

\* C29: for a target element that is not a variable, after the first, a frame
\* passes the time-range check against the frame f of the element before it
\* only if it was opened while f was open; f itself does not pass. In the
\* answer to [iterations, branch, branch] the branch under alias 3 was opened
\* inside the branch under alias 2.
C29_OnlyDescendantsPass ==
    \A r \in 1..Len(query.result) :
        (/\ Answered(<<Iterations, Branch, Branch>>, "list")
         /\ query.result[r].v["3"] # NoneV) =>
            OpenedInside(PlaceOf(query.result[r].v["3"]), PlaceOf(query.result[r].v["2"]))

\* the generator has been asked its question a second time and the query
\* compiled for it has been executed
AskedAgain == query.asked = 2 /\ query.phase \in {"done", "failed"}

\* C30: generate_query called a second time on the same generator with the
\* same arguments compiles a query whose execution returns the same result
\* as the first.
C30_SameAnswerAgain ==
    AskedAgain => query.phase = "done" /\ query.result = query.earlier[1]

----------------------------------------------------------------------------
(* Properties of the joins *)

\* the pipeline of one join of the kind has been applied to the rows
Joins(op) ==
    /\ query.phase = "done"
    /\ Len(query.pipeline) = 1
    /\ query.pipeline[1].op = op
\* the predicate of the join holds of left row i and right row j
pred(i, j) ==
    Conditions(query.pipeline[1].conditions, query.items[i], query.other_items[j])
        = Returns(BoolV(TRUE))
\* the row of the result for a left row and a right row
Pair(l, r) ==
    JoinV((query.pipeline[1].left_alias :> l) @@ (query.pipeline[1].right_alias :> r))
\* the pairs of places (i, j), left row by left row and right row by right row
LeftMajor ==
    [k \in 1..(Len(query.items) * Len(query.other_items)) |->
        <<((k - 1) \div Len(query.other_items)) + 1, ((k - 1) % Len(query.other_items)) + 1>>]
RightMajor ==
    [k \in 1..(Len(query.items) * Len(query.other_items)) |->
        <<((k - 1) % Len(query.items)) + 1, ((k - 1) \div Len(query.items)) + 1>>]
\* one row for each pair of the order that the predicate holds of
PairsIn(order) ==
    LET matched == SelectSeq(order, LAMBDA p : pred(p[1], p[2]))
    IN  [k \in 1..Len(matched) |->
            Pair(query.items[matched[k][1]], query.other_items[matched[k][2]])]
\* the rows of the result with a left row and a right row
Both ==
    SelectSeq(query.result,
              LAMBDA row : /\ row.v[query.pipeline[1].left_alias] # NoneV
                           /\ row.v[query.pipeline[1].right_alias] # NoneV)
\* how many rows of the result are the row
Times(row) == Cardinality({r \in 1..Len(query.result) : query.result[r] = row})
\* one row with right = null for each left row that matched nothing, no other
LeftOnly ==
    \A i \in 1..Len(query.items) :
        Times(Pair(query.items[i], NoneV)) =
            IF \E j \in 1..Len(query.other_items) : pred(i, j) THEN 0 ELSE 1
\* one row with left = null for each right row that matched nothing, no other
RightOnly ==
    \A j \in 1..Len(query.other_items) :
        Times(Pair(NoneV, query.other_items[j])) =
            IF \E i \in 1..Len(query.items) : pred(i, j) THEN 0 ELSE 1
\* the result has no row with left = null, or none with right = null
NoLeftNull == \A r \in 1..Len(query.result) : query.result[r].v[query.pipeline[1].left_alias] # NoneV
NoRightNull == \A r \in 1..Len(query.result) : query.result[r].v[query.pipeline[1].right_alias] # NoneV
\* every left row is in a row of the result
EveryLeft ==
    \A i \in 1..Len(query.items) : \E r \in 1..Len(query.result) :
        query.result[r].v[query.pipeline[1].left_alias] = query.items[i]
Max(a, b) == IF a >= b THEN a ELSE b

\* C23: inner_join returns one row for each pair (l, r) the predicate holds of,
\* in left-major order; left_join returns those rows and one row with right =
\* null for each left row that matched nothing, so every left row is in the
\* result and its size is at least |left|; full_outer_join returns, besides,
\* one row with left = null for each right row that matched nothing, so its
\* size is at least max(|left|, |right|); right_join mirrors left_join.
C23_Joins ==
    /\ Joins("inner_join") => query.result = PairsIn(LeftMajor)
    /\ Joins("left_join") =>
            /\ Both = PairsIn(LeftMajor)
            /\ LeftOnly /\ NoLeftNull /\ EveryLeft
            /\ Len(query.result) >= Len(query.items)
    /\ Joins("full_outer_join") =>
            /\ Both = PairsIn(LeftMajor)
            /\ LeftOnly /\ RightOnly /\ EveryLeft
            /\ Len(query.result) >= Max(Len(query.items), Len(query.other_items))
    /\ Joins("right_join") =>
            /\ Both = PairsIn(RightMajor)
            /\ RightOnly /\ NoRightNull
            /\ Len(query.result) >= Len(query.other_items)

\* C23: a full outer join has returned a row of a pair, a row with right =
\* null and a row with left = null
C23_Witness ==
    /\ Joins("full_outer_join")
    /\ Len(Both) = 1
    /\ Len(query.result) = 3

\* the aliases the joins before step k of the pipeline bind
Bound(k) ==
    UNION {{query.pipeline[m].left_alias, query.pipeline[m].right_alias} : m \in 1..(k - 1)}
\* the right alias of a join of the pipeline is bound by an earlier join
Collides == \E k \in 2..Len(query.pipeline) : query.pipeline[k].right_alias \in Bound(k)

\* C24: a join whose right alias is bound by an earlier join is rejected when
\* the pipeline is constructed, whatever the rows are, so no pipeline with
\* such a join is applied and returns; and a join whose left alias is its
\* right alias is rejected at construction and is not in the pipeline.
C24_CollisionRejectedAtConstruction ==
    /\ \A k \in 1..Len(query.pipeline) :
            query.pipeline[k].left_alias # query.pipeline[k].right_alias
    /\ query.phase = "raised" => query.error = QueryEngineError
    /\ Collides => query.phase # "done"

----------------------------------------------------------------------------
(* Properties of distinct, order_by and group_by *)

\* the pipeline of the steps has been applied to the rows and has returned
Applied(ops) ==
    /\ query.phase = "done"
    /\ Len(query.pipeline) = Len(ops)
    /\ \A k \in 1..Len(ops) : query.pipeline[k].op = ops[k]
\* the rows of the input no earlier row is equal to
FirstOccurrences ==
    SelectSeq([i \in 1..Len(query.items) |-> i],
              LAMBDA i : \A j \in 1..(i - 1) : ~PyEq(query.items[j], query.items[i]))

\* C25: distinct() returns the first occurrence of each distinct value of its
\* input, in the order of the input: no two rows of the result are equal,
\* every row of the input is equal to one of the result, and a second
\* distinct() changes nothing; for hashable rows and rows that are not.
C25_DistinctKeepsFirsts ==
    (Applied(<<"distinct">>) \/ Applied(<<"distinct", "distinct">>)) =>
        /\ query.result = [k \in 1..Len(FirstOccurrences) |-> query.items[FirstOccurrences[k]]]
        /\ \A a, b \in 1..Len(query.result) :
                a # b => ~PyEq(query.result[a], query.result[b])
        /\ \A i \in 1..Len(query.items) : \E r \in 1..Len(query.result) :
                PyEq(query.items[i], query.result[r])

\* C25: distinct() has dropped a second list and a bool equal to a number
\* that came before it
C25_Witness ==
    /\ Applied(<<"distinct">>)
    /\ query.items = <<IntV(1), ListV(<<IntV(1)>>), ListV(<<IntV(1)>>)>>
           \/ query.items = <<ListV(<<IntV(1)>>), SnapshotRow, SnapshotRow>>
    /\ Len(query.result) = 2

\* the value of the field "k" of a row that has it
KeyOf(row) == get_field_value(row, <<"k">>).val
\* how many of the rows are the row
Count(rows, row) == Cardinality({r \in 1..Len(rows) : rows[r] = row})

\* C26: order_by(field, asc) returns a permutation of its input, sorted by the
\* value of the field in the direction asked for; in both directions the rows
\* with equal keys keep the order they have in the input.
C26_OrderByStable ==
    Applied(<<"order_by">>) =>
        /\ Len(query.result) = Len(query.items)
        /\ \A i \in 1..Len(query.items) :
                Count(query.result, query.items[i]) = Count(query.items, query.items[i])
        /\ \A a, b \in 1..Len(query.result) :
                a < b => IF query.pipeline[1].is_ascending
                         THEN AsInt(KeyOf(query.result[a])) <= AsInt(KeyOf(query.result[b]))
                         ELSE AsInt(KeyOf(query.result[a])) >= AsInt(KeyOf(query.result[b]))
        /\ \A i \in 1..Len(query.items) :
                SelectSeq(query.result, LAMBDA row : PyEq(KeyOf(row), KeyOf(query.items[i])))
                    = SelectSeq(query.items, LAMBDA row : PyEq(KeyOf(row), KeyOf(query.items[i])))

\* C26: a descending order_by has put two rows with equal keys, in the order
\* of the input, before a row with a lesser key that came first
C26_Witness ==
    /\ Applied(<<"order_by">>)
    /\ ~query.pipeline[1].is_ascending
    /\ query.items = <<KeyRow(IntV(0), 0), KeyRow(IntV(1), 1), KeyRow(BoolV(TRUE), 0)>>
    /\ query.result = <<KeyRow(IntV(1), 1), KeyRow(BoolV(TRUE), 0), KeyRow(IntV(0), 0)>>

\* the one step of the pipeline is a group_by with these fields that holds
\* aggregations, and the pipeline has been applied
Grouped(fields) ==
    /\ query.phase \in {"done", "failed"}
    /\ Len(query.pipeline) = 1
    /\ query.pipeline[1].op = "group_by"
    /\ query.pipeline[1].group_fields = fields
    /\ query.pipeline[1].aggregations # <<>>
\* the rows of the input whose key no earlier row has
FirstOfKey ==
    SelectSeq([i \in 1..Len(query.items) |-> i],
              LAMBDA i : \A j \in 1..(i - 1) :
                            ~PyEq(KeyOf(query.items[j]), KeyOf(query.items[i])))
\* the rows of the input with the key, in the order of the input
WithKey(k) == SelectSeq(query.items, LAMBDA row : PyEq(KeyOf(row), k))
\* what the aggregation named gives for a group
Aggregated(name, group) ==
    IF name = "n" THEN IntV(Len(group)) ELSE ListV(group)
\* the row of the result for a group: the key fields, then the aggregates
GroupRow(key_fields, group) ==
    DictV(key_fields
          \o [a \in 1..Len(query.pipeline[1].aggregations) |->
                [name |-> query.pipeline[1].aggregations[a].name,
                 value |-> Aggregated(query.pipeline[1].aggregations[a].name, group)]])
\* every row has the field "k" and its value is hashable
Groupable ==
    \A i \in 1..Len(query.items) :
        /\ get_field_value(query.items[i], <<"k">>).exc = ""
        /\ hashable(KeyOf(query.items[i]))

----------------------------------------------------------------------------
(* The explicit-pop transformer *)

\* the program has ended and neither it nor the tracer's statements raised
Finished == interp.status = "done"

\* C28: in the program produced by the explicit-pop transformer every push is
\* matched by one pop of that same frame on every control path, continue, break
\* and return inside a loop or branch body included: record_loop_iteration
\* always finds the LoopExecution on top of the stack, the frame on top when a
\* traced call has returned is its FunctionCall (whose scope pop_execution then
\* pops), and the execution stack is empty, with the global scope alone on the
\* scope stack, when the program ends.
C28_EveryPushIsPopped ==
    /\ (AtStmt /\ Stmt.k = "record_loop_iteration") => loop_is_active(exec_ctx)
    /\ (AtStmt /\ Stmt.k = "set_return_value") => ReceiverIsCall(Stmt)
    /\ Finished => /\ exec_ctx.execution_stack = <<>>
                   /\ exec_ctx.scope_stack = <<0>>

====
